---- MODULE Spec2Model ----
(***************************************************************************)
(* BVHBuilder (src/src/components/layout/RightSideBar/AssetsTab.jsx):      *)
(* top-down BVH construction with a three-tier split selector, a Morton    *)
(* presorter and a synchronous / background-worker orchestrator.           *)
(*                                                                         *)
(* Numbers.  Vertex coordinates are small integers.  A centroid is the     *)
(* mean of three coordinates, so every centroid is kept in THIRDS: the     *)
(* field centroid holds 3 * (the JavaScript centroid), an integer.  Split  *)
(* positions are exact rationals [n, d] in thirds (position = n / (3 d)).  *)
(* A scene states the unit of length its integers count.  In the unit "1"  *)
(* a centroid spread is a multiple of 1/3 and a box spread is an integer,  *)
(* so "spread < 1e-6", "< 1e-10" and "< 1e-12" all hold exactly when the   *)
(* spread is 0; in the unit "1e-11" the three thresholds are 300000, 30    *)
(* and 0.3 thirds.  Arithmetic is exact where the program rounds to double *)
(* precision.                                                              *)
(***************************************************************************)
EXTENDS Integers, Sequences, FiniteSets, TLC

\* ------------------------------------------------------------ bounds
MaxTris == 4
MaxDepth == 2
MaxBuilds == 2
MaxConfigs == 1
MaxTicks == 1
MaxBuildTris == 2
MaxProgressTris == 3
MaxProgressTicks == 3

\* ------------------------------------------------------------ numbers
\* Infinity / -Infinity of the bounds accumulators: larger than any coordinate.
Infinity == 1000000

Min2(a, b) == IF a <= b THEN a ELSE b
Max2(a, b) == IF a >= b THEN a ELSE b
SetMin(S) == CHOOSE m \in S : \A x \in S : m <= x
SetMax(S) == CHOOSE m \in S : \A x \in S : m >= x

\* Math.floor( a / b ) for b > 0
Floor(a, b) == a \div b

Axes == 0 .. 2
\* Vector3.getComponent( axis )
getComponent(v, axis) == v[axis + 1]
\* Vector3.min / Vector3.max (component-wise)
VMin(u, v) == << Min2(u[1], v[1]), Min2(u[2], v[2]), Min2(u[3], v[3]) >>
VMax(u, v) == << Max2(u[1], v[1]), Max2(u[2], v[2]), Max2(u[3], v[3]) >>
InfVec == << Infinity, Infinity, Infinity >>
NegInfVec == << -Infinity, -Infinity, -Infinity >>
ZeroVec == << 0, 0, 0 >>

\* ------------------------------------------------------------ triangles
\* A triangle object: three vertices; id stands for the object's identity
\* (its position in the caller's array when the build was called).
Tri(a, b, c) == [posA |-> a, posB |-> b, posC |-> c]

\* thresholds that only a spread of exactly 0 is below
ThresholdsZeroOnly(unit) == [ sah |-> 1, objectMedian |-> 1, spatialMedian |-> 1 ]

\* The literals 1e-6 (line 1349), 1e-10 (line 1492) and 1e-12 (line 1601) in
\* thirds of the scene's unit, rounded up: a spread in thirds is below the
\* literal exactly when it is below the entry.
Thresholds(unit) ==
    IF unit = "1e-11"
    THEN [ sah |-> 300000, objectMedian |-> 30, spatialMedian |-> 1 ]
    ELSE [ sah |-> 1, objectMedian |-> 1, spatialMedian |-> 1 ]
UnitOf(triangleInfos) ==
    IF triangleInfos = << >> THEN "1" ELSE triangleInfos[1].triangle.unit

\* a TriangleInfo whose bounds are taken over posA and posB only
TriangleInfoTwoVertices(triangle, index) ==
    [ triangle |-> triangle,
      index |-> index,
      centroid |-> << triangle.posA[1] + triangle.posB[1] + triangle.posC[1],
                      triangle.posA[2] + triangle.posB[2] + triangle.posC[2],
                      triangle.posA[3] + triangle.posB[3] + triangle.posC[3] >>,
      bounds |-> [ min |-> VMin(triangle.posA, triangle.posB),
                   max |-> VMax(triangle.posA, triangle.posB) ],
      mortonCode |-> << 0, 0 >> ]

\* class TriangleInfo: centroid (in thirds), bounds, mortonCode
TriangleInfo(triangle, index) ==
    LET A == triangle.posA
        B == triangle.posB
        C == triangle.posC
    IN  [ triangle |-> triangle,
          index |-> index,
          centroid |-> << A[1] + B[1] + C[1], A[2] + B[2] + C[2], A[3] + B[3] + C[3] >>,
          bounds |-> [ min |-> VMin(A, VMin(B, C)), max |-> VMax(A, VMax(B, C)) ],
          mortonCode |-> << 0, 0 >> ]

\* class CWBVHNode, as constructed
CWBVHNode == [ boundsMin |-> ZeroVec, boundsMax |-> ZeroVec,
               leftChild |-> 0, rightChild |-> 0,
               triangleOffset |-> 0, triangleCount |-> 0 ]

\* a bounds loop that starts at the second triangle
updateNodeBoundsFromSecond(node, triangleInfos) ==
    LET mins(a) == { Infinity } \cup
            { triangleInfos[k].bounds.min[a] : k \in 2 .. Len(triangleInfos) }
        maxs(a) == { -Infinity } \cup
            { triangleInfos[k].bounds.max[a] : k \in 2 .. Len(triangleInfos) }
    IN  [ node EXCEPT
            !.boundsMin = << SetMin(mins(1)), SetMin(mins(2)), SetMin(mins(3)) >>,
            !.boundsMax = << SetMax(maxs(1)), SetMax(maxs(2)), SetMax(maxs(3)) >> ]

\* a bounds update that leaves the constructor's bounds when there is no
\* triangle
updateNodeBoundsSkipsEmpty(node, triangleInfos) ==
    IF triangleInfos = << >> THEN node
    ELSE [ node EXCEPT
             !.boundsMin = << SetMin({ triangleInfos[k].bounds.min[1] : k \in 1 .. Len(triangleInfos) }),
                              SetMin({ triangleInfos[k].bounds.min[2] : k \in 1 .. Len(triangleInfos) }),
                              SetMin({ triangleInfos[k].bounds.min[3] : k \in 1 .. Len(triangleInfos) }) >>,
             !.boundsMax = << SetMax({ triangleInfos[k].bounds.max[1] : k \in 1 .. Len(triangleInfos) }),
                              SetMax({ triangleInfos[k].bounds.max[2] : k \in 1 .. Len(triangleInfos) }),
                              SetMax({ triangleInfos[k].bounds.max[3] : k \in 1 .. Len(triangleInfos) }) >> ]

\* updateNodeBoundsOptimized: the node's bounds after the loop
updateNodeBoundsOptimized(node, triangleInfos) ==
    LET n == Len(triangleInfos)
        mins(a) == { Infinity } \cup { triangleInfos[k].bounds.min[a] : k \in 1 .. n }
        maxs(a) == { -Infinity } \cup { triangleInfos[k].bounds.max[a] : k \in 1 .. n }
    IN  [ node EXCEPT
            !.boundsMin = << SetMin(mins(1)), SetMin(mins(2)), SetMin(mins(3)) >>,
            !.boundsMax = << SetMax(maxs(1)), SetMax(maxs(2)), SetMax(maxs(3)) >> ]

\* computeSurfaceAreaFromBounds
computeSurfaceAreaFromBounds(boundsMin, boundsMax) ==
    LET dx == boundsMax[1] - boundsMin[1]
        dy == boundsMax[2] - boundsMin[2]
        dz == boundsMax[3] - boundsMin[3]
    IN  2 * (dx * dy + dy * dz + dz * dx)

\* centroid <= splitPos, the comparator of partitionTrianglesOptimized and of
\* the tiers' own counts; pos = [n, d] in thirds.
LeqPos(c, pos) == c * pos.d <= pos.n

\* Array.prototype.sort with a comparator (a, b) => key(a) - key(b): stable,
\* ascending.  less[j][k] is "the comparator is negative on seq[j], seq[k]".
StableSort(seq, less) ==
    LET n == Len(seq)
        rank(k) == 1 + Cardinality({ j \in 1 .. n :
                        \/ less[j][k]
                        \/ (~less[k][j] /\ j < k) })
    IN  [ p \in 1 .. n |-> seq[CHOOSE k \in 1 .. n : rank(k) = p] ]

CentroidSet(triangleInfos, axis) ==
    { getComponent(triangleInfos[k].centroid, axis) : k \in 1 .. Len(triangleInfos) }

\* ------------------------------------------------------------ Morton codes
\* 32-bit words are kept as two 16-bit halves [ hi, lo ]: the products of
\* expandBits pass 2^31 before they are masked.
Pow2(k) == CASE k = 0 -> 1 [] k = 1 -> 2 [] k = 2 -> 4 [] k = 4 -> 16 [] k = 8 -> 256
             [] k = 16 -> 65536 [] OTHER -> 0
Half == Pow2(16)

RECURSIVE BitAnd(_, _, _)
BitAnd(a, m, bits) ==
    IF bits = 0 THEN 0
    ELSE (IF a % 2 = 1 /\ m % 2 = 1 THEN 1 ELSE 0) + 2 * BitAnd(a \div 2, m \div 2, bits - 1)

AndW(w, maskHi, maskLo) == [ hi |-> BitAnd(w.hi, maskHi, 16), lo |-> BitAnd(w.lo, maskLo, 16) ]
\* w << k modulo 2^32
ShlW(w, k) ==
    IF k = 16 THEN [ hi |-> w.lo, lo |-> 0 ]
    ELSE [ hi |-> (w.hi * Pow2(k) + (w.lo * Pow2(k)) \div Half) % Half,
           lo |-> (w.lo * Pow2(k)) % Half ]
AddW(u, v) == [ hi |-> (u.hi + v.hi + (u.lo + v.lo) \div Half) % Half,
                lo |-> (u.lo + v.lo) % Half ]
\* ( value * (2^k + 1) ) & mask, as ToInt32 computes it
MulMask(w, k, maskHi, maskLo) == AndW(AddW(w, ShlW(w, k)), maskHi, maskLo)

\* expandBits: 0xFF0000FF, 0x0F00F00F, 0xC30C30C3, 0x49249249
expandBits(value) ==
    MulMask(MulMask(MulMask(MulMask(
        [ hi |-> (value \div Half) % Half, lo |-> value % Half ],
        16, 65280, 255), 8, 3840, 61455), 4, 49932, 12483), 2, 18724, 37449)

\* the int32 value of a word, as << h, l >> with value = h * 65536 + l, 0 <= l < 65536
Int32(w) == << IF w.hi >= 32768 THEN w.hi - Half ELSE w.hi, w.lo >>

\* morton3D: ( expandBits( z ) << 2 ) + ( expandBits( y ) << 1 ) + expandBits( x );
\* each << is an int32, the additions are exact
MortonSum(zz, yy, xx) ==
    << zz[1] + yy[1] + xx[1] + (zz[2] + yy[2] + xx[2]) \div Half,
       (zz[2] + yy[2] + xx[2]) % Half >>
MortonShifted(e) ==
    MortonSum(Int32(ShlW(e[3], 2)), Int32(ShlW(e[2], 1)), Int32(e[1]))
morton3D(x, y, z) ==
    MortonShifted([ a \in 1 .. 3 |-> expandBits(<< x, y, z >>[a]) ])

\* a.mortonCode - b.mortonCode < 0
MortonLess(a, b) == a[1] < b[1] \/ (a[1] = b[1] /\ a[2] < b[2])

\* the comparator's sign on every pair of a sequence of codes
MortonOrder(codes) ==
    [ j \in 1 .. Len(codes) |-> [ k \in 1 .. Len(codes) |-> MortonLess(codes[j], codes[k]) ] ]

\* a sort by b.mortonCode - a.mortonCode
SortByMortonCodeDescending(coded) ==
    StableSort(coded, [ j \in 1 .. Len(coded) |-> [ k \in 1 .. Len(coded) |->
                          MortonLess(coded[k].mortonCode, coded[j].mortonCode) ] ])

\* line 718: triangleInfos.sort( ( a, b ) => a.mortonCode - b.mortonCode )
SortByMortonCode(coded) ==
    StableSort(coded, MortonOrder([ k \in 1 .. Len(coded) |-> coded[k].mortonCode ]))

\* line 783: the clusters' codes in ascending order
SortCodes(codes) == StableSort(codes, MortonOrder(codes))

\* ( 1 << bits ) - 1 for the bit depths setMortonConfig admits
mortonScaleOf(bits) ==
    CASE bits = 6 -> 63 [] bits = 7 -> 127 [] bits = 8 -> 255 [] bits = 9 -> 511
      [] bits = 10 -> 1023 [] bits = 11 -> 2047 [] bits = 12 -> 4095 [] bits = 13 -> 8191
      [] bits = 14 -> 16383 [] bits = 15 -> 32767 [] OTHER -> 65535

\* the quantisation of computeMortonCode and recursiveMortonCluster
QuantizeAxis(normalized, range, mortonScale) ==
    IF range > 0
    THEN Max2(0, Min2(mortonScale, Floor(normalized * mortonScale, range)))
    ELSE Max2(0, Min2(mortonScale, Floor(normalized * mortonScale, 3)))
Quantize(centroid, sceneMin, sceneMax, mortonScale) ==
    << QuantizeAxis(centroid[1] - sceneMin[1], sceneMax[1] - sceneMin[1], mortonScale),
       QuantizeAxis(centroid[2] - sceneMin[2], sceneMax[2] - sceneMin[2], mortonScale),
       QuantizeAxis(centroid[3] - sceneMin[3], sceneMax[3] - sceneMin[3], mortonScale) >>

\* morton3D of a quantised centroid
MortonOf(q) == morton3D(q[1], q[2], q[3])

\* computeMortonCode
computeMortonCode(b, centroid, sceneMin, sceneMax) ==
    MortonOf(Quantize(centroid, sceneMin, sceneMax, mortonScaleOf(b.mortonBits)))

\* scene bounds of the centroids (lines 699-708, 739-748)
SceneBounds(triangleInfos) ==
    LET lo(a) == SetMin({ Infinity } \cup
                   { triangleInfos[k].centroid[a] : k \in 1 .. Len(triangleInfos) })
        hi(a) == SetMax({ -Infinity } \cup
                   { triangleInfos[k].centroid[a] : k \in 1 .. Len(triangleInfos) })
    IN  [ min |-> << lo(1), lo(2), lo(3) >>, max |-> << hi(1), hi(2), hi(3) >> ]

\* lines 711-716: every triangle's code against the scene bounds
MortonCoded(b, triangleInfos, scene) ==
    [ k \in 1 .. Len(triangleInfos) |->
        [ triangleInfos[k] EXCEPT !.mortonCode =
            computeMortonCode(b, triangleInfos[k].centroid, scene.min, scene.max) ] ]

\* sortTrianglesByMortonCode
sortTrianglesByMortonCode(b, triangleInfos) ==
    IF ~b.useMortonCodes \/ Len(triangleInfos) < b.mortonClusterThreshold
    THEN triangleInfos
    ELSE SortByMortonCode(MortonCoded(b, triangleInfos, SceneBounds(triangleInfos)))

\* recursiveMortonCluster( triangleInfos, maxClusterSize )
RECURSIVE ConcatClusters(_, _, _, _)
ClusterMembers(tagged) == [ k \in 1 .. Len(tagged) |-> tagged[k].t ]
ConcatClusters(b, triangleInfos, coarse, codes) ==
    IF codes = << >> THEN << >>
    ELSE sortTrianglesByMortonCode(b, ClusterMembers(SelectSeq(
             [ k \in 1 .. Len(triangleInfos) |-> [ t |-> triangleInfos[k], c |-> coarse[k] ] ],
             LAMBDA e : e.c = Head(codes))))
         \o ConcatClusters(b, triangleInfos, coarse, Tail(codes))

\* lines 754-772: the coarse code of every triangle
CoarseCodes(b, triangleInfos, scene) ==
    [ k \in 1 .. Len(triangleInfos) |->
        MortonOf(Quantize(triangleInfos[k].centroid, scene.min, scene.max,
                          mortonScaleOf(Max2(6, b.mortonBits - 2)))) ]

\* the Map's keys in insertion order: first occurrences only
RECURSIVE Distinct(_)
Distinct(seq) ==
    IF seq = << >> THEN << >>
    ELSE << Head(seq) >> \o SelectSeq(Distinct(Tail(seq)), LAMBDA c : c # Head(seq))

\* lines 775-796: clusters in ascending code order, each sorted on its own
SortClusters(b, triangleInfos, coarse) ==
    ConcatClusters(b, triangleInfos, coarse, SortCodes(Distinct(coarse)))

recursiveMortonCluster(b, triangleInfos, maxClusterSize) ==
    IF Len(triangleInfos) <= maxClusterSize
    THEN sortTrianglesByMortonCode(b, triangleInfos)
    ELSE SortClusters(b, triangleInfos,
                      CoarseCodes(b, triangleInfos, SceneBounds(triangleInfos)))

\* a bin count whose steps exclude their upper ends
getOptimalBinCountBelow(b, triangleCount) ==
    IF triangleCount < 16 THEN b.minBins
    ELSE IF triangleCount < 64 THEN 16
    ELSE IF triangleCount < 256 THEN 32
    ELSE IF triangleCount < 1024 THEN 48
    ELSE b.maxBins

\* ------------------------------------------------------------ split selector
\* getOptimalBinCount
getOptimalBinCount(b, triangleCount) ==
    IF triangleCount <= 16 THEN b.minBins
    ELSE IF triangleCount <= 64 THEN 16
    ELSE IF triangleCount <= 256 THEN 32
    ELSE IF triangleCount <= 1024 THEN 48
    ELSE b.maxBins

\* a failed / a successful splitInfo
SplitFailed(method) ==
    [ success |-> FALSE, axis |-> -1, pos |-> [ n |-> 0, d |-> 1 ], method |-> method ]
SplitAt(axis, pos, method) ==
    [ success |-> TRUE, axis |-> axis, pos |-> pos, method |-> method ]

\* "if ( spread > bestSpread )" over axis = 0, 1, 2 from bestSpread = -1:
\* the first axis of the largest spread; s = the three spreads
WidestAxis(s) ==
    IF s[1] >= s[2] /\ s[1] >= s[3] THEN 0 ELSE IF s[2] >= s[3] THEN 1 ELSE 2

\* the number of centroids <= splitPos on an axis
CountLeft(triangleInfos, axis, splitPos) ==
    Cardinality({ k \in 1 .. Len(triangleInfos) :
        LeqPos(getComponent(triangleInfos[k].centroid, axis), splitPos) })

\* lines 1579-1590: the box spread of one axis
MinBound(triangleInfos, axis) ==
    SetMin({ Infinity } \cup
        { getComponent(triangleInfos[k].bounds.min, axis) : k \in 1 .. Len(triangleInfos) })
MaxBound(triangleInfos, axis) ==
    SetMax({ -Infinity } \cup
        { getComponent(triangleInfos[k].bounds.max, axis) : k \in 1 .. Len(triangleInfos) })
BoundSpreads(triangleInfos) ==
    [ a \in 1 .. 3 |-> MaxBound(triangleInfos, a - 1) - MinBound(triangleInfos, a - 1) ]

\* ( a, b ) => a - b on every pair of a sequence of numbers
NumberOrder(values) ==
    [ j \in 1 .. Len(values) |-> [ k \in 1 .. Len(values) |-> values[j] < values[k] ] ]

SortAscending(values) == StableSort(values, NumberOrder(values))

\* lines 1633-1634: the centroid values of an axis, sorted ascending
SortedCentroids(triangleInfos, axis) ==
    SortAscending([ k \in 1 .. Len(triangleInfos) |->
                      getComponent(triangleInfos[k].centroid, axis) ])

\* lines 1637-1664: the split between the median values
AdjustedSplit(bestAxis, centroids, medianIndex) ==
    IF centroids[1] = centroids[Len(centroids)]
    THEN SplitFailed("spatial_median_degenerate")
    ELSE IF medianIndex > 0 /\ centroids[medianIndex] # centroids[medianIndex + 1]
    THEN SplitAt(bestAxis, [ n |-> centroids[medianIndex] + centroids[medianIndex + 1],
                             d |-> 2 ], "spatial_median")
    ELSE IF medianIndex < Len(centroids) - 1
    THEN SplitAt(bestAxis, [ n |-> centroids[medianIndex + 1] + centroids[medianIndex + 2],
                             d |-> 2 ], "spatial_median")
    ELSE SplitAt(bestAxis, [ n |-> centroids[medianIndex + 1], d |-> 1 ], "spatial_median")

\* lines 1607-1673; splitPos = ( bestBounds.min + bestBounds.max ) * 0.5, in thirds
SpatialMedianAt(triangleInfos, bestAxis, splitPos, leftCount) ==
    IF leftCount = 0 \/ Len(triangleInfos) - leftCount = 0
    THEN AdjustedSplit(bestAxis, SortedCentroids(triangleInfos, bestAxis),
                       Len(triangleInfos) \div 2)
    ELSE SplitAt(bestAxis, splitPos, "spatial_median")

SpatialMedianOn(triangleInfos, bestAxis, splitPos) ==
    SpatialMedianAt(triangleInfos, bestAxis, splitPos,
                    CountLeft(triangleInfos, bestAxis, splitPos))

SpatialMedianAxis(triangleInfos, bestAxis, minBound, maxBound) ==
    IF 3 * (maxBound - minBound) < Thresholds(UnitOf(triangleInfos)).spatialMedian
                                                 \* bestSpread < 1e-12
    THEN SplitFailed("spatial_median_failed")
    ELSE SpatialMedianOn(triangleInfos, bestAxis, [ n |-> 3 * (minBound + maxBound), d |-> 2 ])

SpatialMedianWidest(triangleInfos, bestAxis) ==
    SpatialMedianAxis(triangleInfos, bestAxis, MinBound(triangleInfos, bestAxis),
                      MaxBound(triangleInfos, bestAxis))

\* findSpatialMedianSplit (tier 3)
findSpatialMedianSplit(b, triangleInfos) ==
    IF Len(triangleInfos) = 0                    \* bestAxis === -1
    THEN SplitFailed("spatial_median_failed")
    ELSE SpatialMedianWidest(triangleInfos, WidestAxis(BoundSpreads(triangleInfos)))

\* lines 1471-1482: the centroid spread of every axis
CentroidSpreads(triangleInfos) ==
    [ a \in 1 .. 3 |-> SetMax({ -Infinity } \cup CentroidSet(triangleInfos, a - 1))
                       - SetMin({ Infinity } \cup CentroidSet(triangleInfos, a - 1)) ]

\* lines 1536-1566: leftCount counted against splitPos = medianCentroid
ObjectMedianAt(b, bestAxis, prevCentroid, medianCentroid, medianIndex, leftCount, n) ==
    IF leftCount = 0 \/ leftCount = n
    THEN IF medianIndex > 0
         THEN SplitAt(bestAxis, [ n |-> prevCentroid + medianCentroid, d |-> 2 ],
                      "object_median")
         ELSE SplitFailed("object_median_degenerate")
    ELSE SplitAt(bestAxis, [ n |-> medianCentroid, d |-> 1 ], "object_median")

\* lines 1507-1533: sortedTriangles is the stable sort on the best axis
ObjectMedianSorted(b, triangleInfos, bestAxis, centroids, medianIndex) ==
    ObjectMedianAt(b, bestAxis,
                   IF medianIndex > 0 THEN centroids[medianIndex] ELSE 0,
                   centroids[medianIndex + 1], medianIndex,
                   CountLeft(triangleInfos, bestAxis,
                             [ n |-> centroids[medianIndex + 1], d |-> 1 ]),
                   Len(triangleInfos))

ObjectMedianOn(b, triangleInfos, bestAxis, bestSpread) ==
    IF bestSpread < Thresholds(UnitOf(triangleInfos)).objectMedian
                                                 \* bestSpread < 1e-10
    THEN SplitFailed("object_median_failed")
    ELSE ObjectMedianSorted(b, triangleInfos, bestAxis,
                            SortedCentroids(triangleInfos, bestAxis),
                            Len(triangleInfos) \div 2)

ObjectMedianWidest(b, triangleInfos, spreads) ==
    IF Len(triangleInfos) = 0                    \* bestAxis === -1
    THEN SplitFailed("object_median_failed")
    ELSE ObjectMedianOn(b, triangleInfos, WidestAxis(spreads), spreads[WidestAxis(spreads) + 1])

\* lines 1492-1505, 1544-1557: what a failed object median returns
ObjectMedianFallback(b, triangleInfos, own) ==
    IF own.success THEN own
    ELSE IF b.enableSpatialMedianFallback
    THEN findSpatialMedianSplit(b, triangleInfos)
    ELSE SplitFailed(IF own.method = "object_median_failed"
                     THEN "object_median_failed_no_spatial_fallback"
                     ELSE "object_median_degenerate_no_spatial_fallback")

\* findObjectMedianSplit (tier 2)
findObjectMedianSplit(b, triangleInfos) ==
    ObjectMedianFallback(b, triangleInfos,
        ObjectMedianWidest(b, triangleInfos, CentroidSpreads(triangleInfos)))

\* findBestSplitPositionSAH, lines 1351-1371: the first currentBinCount bins
\* after the reset loop and the binning loop of one axis (bins are 0-based)
SAHBins(triangleInfos, axis, currentBinCount, minCentroid, maxCentroid) ==
    LET n == Len(triangleInfos)
        binIndex == [ k \in 1 .. n |->
            Min2(Floor((getComponent(triangleInfos[k].centroid, axis) - minCentroid)
                         * currentBinCount, maxCentroid - minCentroid),
                 currentBinCount - 1) ] \o << >>
        members(j) == { k \in 1 .. n : binIndex[k] = j }
        lo(j, a) == SetMin({ Infinity } \cup { triangleInfos[k].bounds.min[a] : k \in members(j) })
        hi(j, a) == SetMax({ -Infinity } \cup { triangleInfos[k].bounds.max[a] : k \in members(j) })
    IN  [ binCounts |-> [ j \in 1 .. currentBinCount |-> Cardinality(members(j - 1)) ] \o << >>,
          binBounds |-> [ j \in 1 .. currentBinCount |->
                            [ min |-> << lo(j - 1, 1), lo(j - 1, 2), lo(j - 1, 3) >>,
                              max |-> << hi(j - 1, 1), hi(j - 1, 2), hi(j - 1, 3) >> ] ] \o << >> ]

\* lines 1385-1390, 1403-1408: one bin joins a side
SAHSideAdd(side, binCount, binBound) ==
    IF binCount > 0
    THEN [ count |-> side.count + binCount,
           min |-> VMin(side.min, binBound.min),
           max |-> VMax(side.max, binBound.max) ]
    ELSE side

\* lines 1376-1410: count and bounds accumulated over the bins from .. to
RECURSIVE SAHSide(_, _, _)
SAHSide(bins, from, to) ==
    IF from > to
    THEN [ count |-> 0, min |-> InfVec, max |-> NegInfVec ]
    ELSE SAHSideAdd(SAHSide(bins, from, to - 1), bins.binCounts[to + 1],
                    bins.binBounds[to + 1])

\* a candidate test that accepts every plane cheaper than a leaf
SAHCandidateBelowLeaf(n, parentSA, left, right, axis, pos, best, cost) ==
    IF /\ left.count # 0 /\ right.count # 0
       /\ parentSA # 0
       /\ cost < n * parentSA
    THEN [ axis |-> axis, cost |-> cost, pos |-> pos ]
    ELSE best

\* lines 1412-1428: one candidate plane.  cost is kept as cost * parentSA (all
\* candidates of a node share parentSA), with bestCost = Infinity as
\* best.axis = -1.  parentSA = 0 makes every cost NaN or Infinity, which is
\* never below bestCost.
SAHCandidate(n, parentSA, left, right, axis, pos, best, cost) ==
    IF /\ left.count # 0 /\ right.count # 0
       /\ parentSA # 0
       /\ (best.axis = -1 \/ cost < best.cost)
       /\ cost < n * parentSA
    THEN [ axis |-> axis, cost |-> cost, pos |-> pos ]
    ELSE best

SAHPlane(n, parentSA, left, right, axis, pos, best) ==
    SAHCandidate(n, parentSA, left, right, axis, pos, best,
        parentSA + computeSurfaceAreaFromBounds(left.min, left.max) * left.count
                 + computeSurfaceAreaFromBounds(right.min, right.max) * right.count)

\* lines 1374-1430: the plane loop of one axis; best = [ axis, pos, cost ]
RECURSIVE SAHPlanes(_, _, _, _, _, _, _, _, _)
SAHPlanes(n, parentSA, bins, axis, currentBinCount, minCentroid, maxCentroid, i, best) ==
    IF i >= currentBinCount THEN best
    ELSE SAHPlanes(n, parentSA, bins, axis, currentBinCount, minCentroid, maxCentroid, i + 1,
            SAHPlane(n, parentSA, SAHSide(bins, 0, i - 1),
                     SAHSide(bins, i, currentBinCount - 1), axis,
                     [ n |-> minCentroid * currentBinCount + (maxCentroid - minCentroid) * i,
                       d |-> currentBinCount ],
                     best))

\* the scratch arrays after one axis was binned, with the best plane so far
SAHAxisDone(acc, bins, currentBinCount, best) ==
    [ acc EXCEPT
        !.best = best,
        !.binCounts = [ j \in 1 .. Len(acc.binCounts) |->
                          IF j <= currentBinCount THEN bins.binCounts[j]
                          ELSE acc.binCounts[j] ],
        !.binBounds = [ j \in 1 .. Len(acc.binBounds) |->
                          IF j <= currentBinCount THEN bins.binBounds[j]
                          ELSE acc.binBounds[j] ] ]

\* lines 1352-1358 when currentBinCount > binBounds.length: resetting bin
\* i = binBounds.length reads .min of undefined, a TypeError, after
\* binCounts[ i ] = 0 was stored
SAHAxisThrows(acc, L) ==
    [ acc EXCEPT
        !.threw = TRUE,
        !.binCounts = [ j \in 1 .. Max2(Len(acc.binCounts), L + 1) |->
                          IF j <= L + 1 THEN 0 ELSE acc.binCounts[j] ],
        !.binBounds = [ j \in 1 .. L |-> [ min |-> InfVec, max |-> NegInfVec ] ] ]

SAHAxisBinned(n, parentSA, currentBinCount, axis, acc, minCentroid, maxCentroid, bins) ==
    SAHAxisDone(acc, bins, currentBinCount,
        SAHPlanes(n, parentSA, bins, axis, currentBinCount, minCentroid, maxCentroid,
                  1, acc.best))

\* lines 1349-1430: one axis; acc = [ best, binCounts, binBounds, threw ], the
\* arrays being the builder's scratch bins (0-based in the program)
SAHAxis(triangleInfos, parentSA, currentBinCount, axis, acc, minCentroid, maxCentroid) ==
    IF maxCentroid - minCentroid < Thresholds(UnitOf(triangleInfos)).sah
                                                 \* < 1e-6: skip degenerate axis
    THEN acc
    ELSE IF currentBinCount > Len(acc.binBounds)
    THEN SAHAxisThrows(acc, Len(acc.binBounds))
    ELSE SAHAxisBinned(Len(triangleInfos), parentSA, currentBinCount, axis, acc,
                       minCentroid, maxCentroid,
                       SAHBins(triangleInfos, axis, currentBinCount,
                               minCentroid, maxCentroid))

\* lines 1335-1432: the axis loop
RECURSIVE SAHAxes(_, _, _, _, _)
SAHAxes(triangleInfos, parentSA, currentBinCount, axis, acc) ==
    IF axis > 2 \/ acc.threw THEN acc
    ELSE SAHAxes(triangleInfos, parentSA, currentBinCount, axis + 1,
            SAHAxis(triangleInfos, parentSA, currentBinCount, axis, acc,
                    SetMin({ Infinity } \cup CentroidSet(triangleInfos, axis)),
                    SetMax({ -Infinity } \cup CentroidSet(triangleInfos, axis))))

\* lines 1434-1459: the tier chosen once the SAH loop is over
SAHResult(b, triangleInfos, acc) ==
    [ splitInfo |->
        IF acc.threw THEN SplitFailed("threw")
        ELSE IF acc.best.axis = -1
        THEN IF b.enableObjectMedianFallback
             THEN findObjectMedianSplit(b, triangleInfos)
             ELSE IF b.enableSpatialMedianFallback
             THEN findSpatialMedianSplit(b, triangleInfos)
             ELSE SplitFailed("fallbacks_disabled")
        ELSE SplitAt(acc.best.axis, acc.best.pos, "SAH"),
      binCounts |-> acc.binCounts, binBounds |-> acc.binBounds, threw |-> acc.threw ]

\* findBestSplitPositionSAH (tier 1 and the fall-through): the returned
\* splitInfo, the scratch bins it leaves behind, and whether it threw
findBestSplitPositionSAH(b, triangleInfos, parentNode) ==
    SAHResult(b, triangleInfos,
        SAHAxes(triangleInfos,
                computeSurfaceAreaFromBounds(parentNode.boundsMin, parentNode.boundsMax),
                getOptimalBinCount(b, Len(triangleInfos)), 0,
                [ best |-> [ axis |-> -1, cost |-> 0, pos |-> [ n |-> 0, d |-> 1 ] ],
                  binCounts |-> b.binCounts, binBounds |-> b.binBounds,
                  threw |-> FALSE ]))

\* a partition that drops the triangles whose centroid lies on the plane
partitionDropsOnPlane(b, triangleInfos, axis, splitPos) ==
    [ tempLeftTris |-> SelectSeq(triangleInfos,
          LAMBDA t : getComponent(t.centroid, axis) * splitPos.d < splitPos.n),
      tempRightTris |-> SelectSeq(triangleInfos,
          LAMBDA t : getComponent(t.centroid, axis) * splitPos.d > splitPos.n) ]

\* a partition that appends to the temp arrays without clearing them
partitionKeepsLeftovers(b, triangleInfos, axis, splitPos) ==
    [ tempLeftTris |-> b.tempLeftTris \o SelectSeq(triangleInfos,
          LAMBDA t : LeqPos(getComponent(t.centroid, axis), splitPos)),
      tempRightTris |-> b.tempRightTris \o SelectSeq(triangleInfos,
          LAMBDA t : ~LeqPos(getComponent(t.centroid, axis), splitPos)) ]

\* partitionTrianglesOptimized: the temp arrays after the loop (the returned
\* left / right are copies of them).  The arrays are cleared first.
partitionTrianglesOptimized(b, triangleInfos, axis, splitPos) ==
    [ tempLeftTris |-> SelectSeq(triangleInfos,
          LAMBDA t : LeqPos(getComponent(t.centroid, axis), splitPos)),
      tempRightTris |-> SelectSeq(triangleInfos,
          LAMBDA t : ~LeqPos(getComponent(t.centroid, axis), splitPos)) ]

\* ------------------------------------------------------------ builder
\* The fields the constructor sets.  traversalCost = intersectionCost = 1.0
\* are folded into SAHPlanes; avgBinsUsed and the two timings of splitStats
\* are diagnostics of the wall clock and are left out.
NewSplitStats == [ sahSplits |-> 0, objectMedianSplits |-> 0, spatialMedianSplits |-> 0,
                   failedSplits |-> 0, totalSplitAttempts |-> 0 ]

\* initializeBinArrays: maxBins accumulators, each a fresh Vector3 pair
initializeBinArrays(maxBins) ==
    [ binBounds |-> [ j \in 1 .. maxBins |-> [ min |-> ZeroVec, max |-> ZeroVec ] ],
      binCounts |-> [ j \in 1 .. maxBins |-> 0 ] ]

NewBuilder ==
    [ useWorker |-> TRUE,
      maxLeafSize |-> 8,
      numBins |-> 32,
      minBins |-> 8,
      maxBins |-> 64,
      nodes |-> << >>,
      totalNodes |-> 0,
      processedTriangles |-> 0,
      totalTriangles |-> 0,
      lastProgressUpdate |-> 0,
      progressUpdateInterval |-> 100,
      useMortonCodes |-> TRUE,
      mortonBits |-> 10,
      mortonClusterThreshold |-> 128,
      enableObjectMedianFallback |-> TRUE,
      enableSpatialMedianFallback |-> TRUE,
      tempLeftTris |-> << >>,
      tempRightTris |-> << >>,
      binBounds |-> initializeBinArrays(64).binBounds,
      binCounts |-> initializeBinArrays(64).binCounts,
      splitStats |-> NewSplitStats ]

\* An execution of the pipeline on one builder:
\*   b                  the builder (this)
\*   reorderedTriangles the output array
\*   now, ticks         the clock and the time that passes before each of the
\*                      next reads of performance.now() in updateProgress
\*   progressLog        the calls made to progressCallback, in order
\*   calls              per node created, the arguments of its buildNodeRecursive
\*                      call: [ count, depth, parent ] (parent = 0 for the root)
\*   threw              an exception is propagating
\*   ret                the node the last returned call created

\* updateProgress
updateProgress(st, trianglesProcessed, progressCallback) ==
    IF ~progressCallback THEN st
    ELSE LET processed == st.b.processedTriangles + trianglesProcessed
             elapsed == IF st.ticks = << >> THEN 0 ELSE Head(st.ticks)
             now == st.now + elapsed
             s1 == [ st EXCEPT !.b.processedTriangles = processed,
                               !.now = now,
                               !.ticks = IF @ = << >> THEN @ ELSE Tail(@) ]
             total == st.b.totalTriangles
             \* Math.min( Math.floor( processed / total * 100 ), 99 ); 0 / 0 is NaN
             progress == IF total = 0
                         THEN [ nan |-> processed = 0, value |-> IF processed = 0 THEN 0 ELSE 99 ]
                         ELSE [ nan |-> FALSE, value |-> Min2(Floor(processed * 100, total), 99) ]
         IN  IF now - st.b.lastProgressUpdate < st.b.progressUpdateInterval
             THEN s1
             ELSE [ s1 EXCEPT !.b.lastProgressUpdate = now,
                              !.progressLog = Append(@, [ nan |-> progress.nan,
                                                          value |-> progress.value,
                                                          time |-> now ]) ]

\* buildNodeRecursive, lines 1216-1227 (and 1240-1250, 1279-1289): make the
\* node idx a leaf of triangleInfos
EmitLeaf(st, idx, triangleInfos, progressCallback) ==
    LET s1 == [ st EXCEPT
                  !.b.nodes[idx].triangleOffset = Len(st.reorderedTriangles),
                  !.b.nodes[idx].triangleCount = Len(triangleInfos),
                  !.reorderedTriangles =
                      @ \o [ k \in 1 .. Len(triangleInfos) |-> triangleInfos[k].triangle ] ]
    IN  [ updateProgress(s1, Len(triangleInfos), progressCallback) EXCEPT !.ret = idx ]

\* a leaf condition that admits one triangle more than the cap
IsLeafCaseOneMore(b, count, depth) == count <= b.maxLeafSize + 1 \/ depth <= 0

\* a leaf condition that lets a node with no depth left split once more
IsLeafCaseBelowZero(b, count, depth) == count <= b.maxLeafSize \/ depth < 0

\* a partition check that always reports an empty side
PartitionAlwaysFailed(leftTris, rightTris) == TRUE

\* a partition check that never reports an empty side
PartitionNeverFailed(leftTris, rightTris) == FALSE

\* line 1214: the leaf condition
IsLeafCase(b, count, depth) == count <= b.maxLeafSize \/ depth <= 0

\* line 1277: the partition left one side empty
PartitionFailed(leftTris, rightTris) == Len(leftTris) = 0 \/ Len(rightTris) = 0

\* lines 1254-1267
TrackSplitMethod(stats, method) ==
    IF method = "SAH" THEN [ stats EXCEPT !.sahSplits = @ + 1 ]
    ELSE IF method = "object_median" THEN [ stats EXCEPT !.objectMedianSplits = @ + 1 ]
    ELSE IF method = "spatial_median" THEN [ stats EXCEPT !.spatialMedianSplits = @ + 1 ]
    ELSE stats

\* lines 1206-1211: the node is pushed and its bounds are computed
NodeCreated(st, triangleInfos, depth, parent) ==
    [ st EXCEPT !.b.nodes = Append(@, updateNodeBoundsOptimized(CWBVHNode, triangleInfos)),
                !.b.totalNodes = @ + 1,
                !.calls = Append(@, [ count |-> Len(triangleInfos),
                                      depth |-> depth, parent |-> parent ]) ]

\* line 1232: the builder after findBestSplitPositionSAH ran (or threw)
SplitSearched(st, found) ==
    [ st EXCEPT !.b.binCounts = found.binCounts,
                !.b.binBounds = found.binBounds,
                !.b.splitStats.totalSplitAttempts = @ + 1,
                !.threw = found.threw ]

\* lines 1254-1274: the method is counted, then the triangles are partitioned
Partitioned(st, method, parts) ==
    [ st EXCEPT !.b.splitStats = TrackSplitMethod(@, method),
                !.b.tempLeftTris = parts.tempLeftTris,
                !.b.tempRightTris = parts.tempRightTris ]

RECURSIVE buildNodeRecursive(_, _, _, _, _)

\* line 1295 and the return
RightBuilt(sR, idx) ==
    IF sR.threw THEN sR
    ELSE [ sR EXCEPT !.b.nodes[idx].rightChild = sR.ret, !.ret = idx ]

\* line 1294, then line 1295
LeftBuilt(sL, idx, rightTris, depth, progressCallback) ==
    IF sL.threw THEN sL
    ELSE RightBuilt(buildNodeRecursive([ sL EXCEPT !.b.nodes[idx].leftChild = sL.ret ],
                                       rightTris, depth - 1, progressCallback, idx),
                    idx)

\* lines 1277-1297
SplitNode(st, idx, triangleInfos, depth, progressCallback, leftTris, rightTris) ==
    IF PartitionFailed(leftTris, rightTris)
    THEN EmitLeaf(st, idx, triangleInfos, progressCallback)
    ELSE LeftBuilt(buildNodeRecursive(st, leftTris, depth - 1, progressCallback, idx),
                   idx, rightTris, depth, progressCallback)

PartitionNode(st, idx, triangleInfos, depth, progressCallback, method, parts) ==
    SplitNode(Partitioned(st, method, parts), idx, triangleInfos, depth, progressCallback,
              parts.tempLeftTris, parts.tempRightTris)

\* lines 1234-1274
SplitChosen(st, idx, triangleInfos, depth, progressCallback, splitInfo) ==
    IF st.threw THEN st
    ELSE IF ~splitInfo.success
    THEN EmitLeaf([ st EXCEPT !.b.splitStats.failedSplits = @ + 1 ],
                  idx, triangleInfos, progressCallback)
    ELSE PartitionNode(st, idx, triangleInfos, depth, progressCallback, splitInfo.method,
             partitionTrianglesOptimized(st.b, triangleInfos, splitInfo.axis, splitInfo.pos))

SearchedNode(st, idx, triangleInfos, depth, progressCallback, found) ==
    SplitChosen(SplitSearched(st, found), idx, triangleInfos, depth, progressCallback,
                found.splitInfo)

\* lines 1214-1232
CreatedNode(st, idx, triangleInfos, depth, progressCallback) ==
    IF IsLeafCase(st.b, Len(triangleInfos), depth)
    THEN EmitLeaf(st, idx, triangleInfos, progressCallback)
    ELSE SearchedNode(st, idx, triangleInfos, depth, progressCallback,
                      findBestSplitPositionSAH(st.b, triangleInfos, st.b.nodes[idx]))

\* buildNodeRecursive( triangleInfos, depth, reorderedTriangles, progressCallback )
\* on the execution st; the new node is st.b.nodes[ idx ]
buildNodeRecursive(st, triangleInfos, depth, progressCallback, parent) ==
    CreatedNode(NodeCreated(st, triangleInfos, depth, parent), Len(st.b.nodes) + 1,
                triangleInfos, depth, progressCallback)

LargeInput == 50000
MaxClusterSize == 10000

\* lines 1107-1123: the reset
BuildStarted(b, triangles, now) ==
    [ b EXCEPT !.nodes = << >>,
               !.totalNodes = 0,
               !.processedTriangles = 0,
               !.totalTriangles = Len(triangles),
               !.lastProgressUpdate = now,
               !.splitStats = NewSplitStats ]

\* lines 1126-1138
Presorted(b, infos) ==
    IF Len(infos) > LargeInput
    THEN recursiveMortonCluster(b, infos, MaxClusterSize)
    ELSE sortTrianglesByMortonCode(b, infos)

\* lines 1175-1181
BuildEnded(st, progressCallback) ==
    IF st.threw \/ ~progressCallback THEN st
    ELSE [ st EXCEPT !.progressLog =
             Append(@, [ nan |-> FALSE, value |-> 100, time |-> st.now ]) ]

BuildRun(b, triangles, depth, reorderedTriangles, progressCallback, now, ticks) ==
    BuildEnded(
        buildNodeRecursive(
            [ b |-> b, reorderedTriangles |-> reorderedTriangles,
              now |-> now, ticks |-> ticks, progressLog |-> << >>,
              calls |-> << >>, threw |-> FALSE, ret |-> 0 ],
            Presorted(b, [ k \in 1 .. Len(triangles) |-> TriangleInfo(triangles[k], k - 1) ]),
            depth, progressCallback, 0),
        progressCallback)

\* buildSync( triangles, depth, reorderedTriangles, progressCallback ): the
\* execution as it ends (returned, or threw)
buildSync(b, triangles, depth, reorderedTriangles, progressCallback, now, ticks) ==
    BuildRun(BuildStarted(b, triangles, now), triangles, depth, reorderedTriangles,
             progressCallback, now, ticks)

\* ------------------------------------------------------------ configuration
\* A config object is a record holding the keys that are not undefined.
Has(config, key) == key \in DOMAIN config

\* setAdaptiveBinConfig
setAdaptiveBinConfig(b, config) ==
    LET b1 == [ b EXCEPT
                  !.minBins = IF Has(config, "minBins") THEN Max2(4, config.minBins) ELSE @,
                  !.maxBins = IF Has(config, "maxBins") THEN Min2(128, config.maxBins) ELSE @,
                  !.numBins = IF Has(config, "baseBins") THEN config.baseBins ELSE @ ]
    IN  IF Has(config, "maxBins")
        THEN [ b1 EXCEPT !.binBounds = initializeBinArrays(b1.maxBins).binBounds,
                         !.binCounts = initializeBinArrays(b1.maxBins).binCounts ]
        ELSE b1

\* setMortonConfig
setMortonConfig(b, config) ==
    [ b EXCEPT
        !.useMortonCodes = IF Has(config, "enabled") THEN config.enabled ELSE @,
        !.mortonBits = IF Has(config, "bits") THEN Max2(6, Min2(16, config.bits)) ELSE @,
        !.mortonClusterThreshold =
            IF Has(config, "threshold") THEN Max2(16, config.threshold) ELSE @ ]

\* setFallbackConfig
setFallbackConfig(b, config) ==
    [ b EXCEPT
        !.enableObjectMedianFallback =
            IF Has(config, "objectMedian") THEN config.objectMedian ELSE @,
        !.enableSpatialMedianFallback =
            IF Has(config, "spatialMedian") THEN config.spatialMedian ELSE @ ]

\* the configuration in force on a builder
ConfigOf(b) ==
    [ maxLeafSize |-> b.maxLeafSize, minBins |-> b.minBins, maxBins |-> b.maxBins,
      numBins |-> b.numBins, useMortonCodes |-> b.useMortonCodes,
      mortonBits |-> b.mortonBits, mortonClusterThreshold |-> b.mortonClusterThreshold,
      enableObjectMedianFallback |-> b.enableObjectMedianFallback,
      enableSpatialMedianFallback |-> b.enableSpatialMedianFallback ]

\* ------------------------------------------------------------ inputs
\* Triangle shapes.  U(k): the same box [0,6]^3 for every k, centroid moving
\* with k (binned SAH finds no split cheaper than a leaf).  P(o): a small
\* triangle at x = o (binned SAH separates them).
U(k) == Tri(<< 0, 0, 0 >>, << 6, 6, 6 >>, << k, 0, 0 >>)
P(o) == Tri(<< o, 0, 0 >>, << o + 1, 0, 0 >>, << o, 1, 0 >>)
Palette == << U(0), U(3), P(9) >>

\* the caller's array: distinct triangle objects, id = the object's identity
Scene(shapes) ==
    [ k \in 1 .. Len(shapes) |->
        [ posA |-> shapes[k].posA, posB |-> shapes[k].posB, posC |-> shapes[k].posC,
          id |-> k, unit |-> "1" ] ]

SmallScenes ==
    UNION { { Scene([ k \in 1 .. n |-> Palette[f[k]] ]) : f \in [ 1 .. n -> 1 .. Len(Palette) ] } :
            n \in 0 .. MaxTris }

\* Scenes larger than the default leaf cap: Row(n, stride) is n small triangles
\* along x in a scrambled order, Boxes(n) is n triangles sharing one box.
Row(n, stride) == Scene([ k \in 1 .. n |-> P(((k * stride) % n) * 2) ])
Boxes(n) == Scene([ k \in 1 .. n |-> U((k * 3) % 7) ])
BigScenes == { Row(10, 3), Row(17, 5), Boxes(9) }

\* Outlier(n) is n - 1 small triangles in a row and one far away; Shelf(n) is
\* n triangles of pairwise distinct centroids sharing (nearly) one box.
Outlier(n) == Scene([ k \in 1 .. n |-> IF k = n THEN P(100) ELSE P((k - 1) * 2) ])
Shelf(n) == Scene([ k \in 1 .. n |-> Tri(<< 0, 0, 0 >>, << 12, 12, 12 >>, << k - 1, 0, 0 >>) ])
\* Q(o) has its centroid at ( o + 1, 1, 0 ); Steps(n) is n of them, their
\* centroids 2 apart
Q(o) == Tri(<< o, 0, 0 >>, << o + 1, 0, 0 >>, << o + 2, 3, 0 >>)
Steps(n) == Scene([ k \in 1 .. n |-> Q((k - 1) * 2) ])
SplitScenes == { Outlier(10), Shelf(10), Steps(9) }

\* Scenes measured in units of 1e-11: C(c) has its centroid at ( c, 0, 0 ).
\* Coincident: every centroid at the origin.  Near: centroids 1e-11 apart.
\* Band: centroids at -9e-11 and 9e-11, all within 1e-10 of the origin.
C(c) == Tri(<< c - 1, -1, 0 >>, << c + 1, -1, 0 >>, << c, 2, 0 >>)
FineScene(shapes) == [ k \in 1 .. Len(shapes) |-> [ Scene(shapes)[k] EXCEPT !.unit = "1e-11" ] ]
Coincident(n) == FineScene([ k \in 1 .. n |-> C(0) ])
Near(n) == FineScene([ k \in 1 .. n |-> C(k % 2) ])
Band(n) == FineScene([ k \in 1 .. n |-> C(IF k % 2 = 0 THEN 9 ELSE -9) ])
FineScenes == { Coincident(32), Near(32), Band(32) }

Ids(seq) == [ k \in 1 .. Len(seq) |-> seq[k].id ]

VARIABLES
    b,              \* the caller's BVHBuilder (this)
    triangles,      \* the caller's triangle array
    depth,          \* the depth the caller builds with
    progressCallback, \* whether the caller passes a progress callback
    hasWorker,      \* typeof Worker !== 'undefined'
    promise,        \* the promise build() returned: state and value
    worker,         \* the worker of the build in flight and its undelivered messages
    progressLog,    \* what the caller's progress callback was called with
    last,           \* the last pipeline run that ended on the caller's side
    prev,           \* the run before it
    builds,         \* builds started
    configs,        \* configuration calls made
    call            \* the last direct call of a presorter function and what it returned

vars == << b, triangles, depth, progressCallback, hasWorker, promise, worker, progressLog, last, prev,
           builds, configs, call >>

NoCall == [ fn |-> "none" ]

NoRun == [ mode |-> "none", input |-> << >>, depth |-> 0, config |-> ConfigOf(NewBuilder),
           threw |-> FALSE, nodes |-> << >>, reordered |-> << >>, calls |-> << >>,
           splitStats |-> NewSplitStats, callback |-> FALSE ]

\* the record of a run of buildSync: st is the execution as it ended
RunOf(mode, bb, input, d, callback, st) ==
    [ mode |-> mode, input |-> input, depth |-> d, config |-> ConfigOf(bb),
      threw |-> st.threw,
      nodes |-> IF st.threw THEN << >> ELSE st.b.nodes,
      reordered |-> st.reorderedTriangles, calls |-> st.calls,
      splitStats |-> st.b.splitStats, callback |-> callback ]

NoPromise == [ state |-> "none", root |-> << >> ]
NoWorker == [ state |-> "none", outbox |-> << >>, uncaught |-> 0 ]

Ticks(callback) ==
    IF callback THEN [ 1 .. MaxTicks -> { 0, NewBuilder.progressUpdateInterval } ]
    ELSE { << >> }

InitCommon ==
    /\ depth \in { 0, MaxDepth }
    /\ promise = NoPromise
    /\ worker = NoWorker
    /\ progressLog = << >>
    /\ last = NoRun
    /\ prev = NoRun
    /\ builds = 0
    /\ configs = 0
    /\ call = NoCall

\* The builder as constructed; maxLeafSize and useWorker are public fields
\* with no setter, assigned by the caller.
Init ==
    /\ InitCommon
    /\ \/ /\ triangles \in SmallScenes
          /\ \E leaf \in { 1, 2 } : b = [ NewBuilder EXCEPT !.maxLeafSize = leaf ]
       \/ /\ triangles \in BigScenes \cup SplitScenes \cup FineScenes
          /\ b = NewBuilder
    /\ progressCallback = FALSE
    /\ hasWorker = TRUE

FallbackConfigs ==
    { [ objectMedian |-> FALSE ], [ spatialMedian |-> FALSE ],
      [ objectMedian |-> FALSE, spatialMedian |-> FALSE ] }
BinConfigs ==
    { [ minBins |-> 2 ], [ maxBins |-> 4 ], [ minBins |-> 16, maxBins |-> 200, baseBins |-> 16 ] }
MortonConfigs ==
    { [ threshold |-> 3 ], [ bits |-> 5, threshold |-> 16 ] }

Idle == promise.state # "pending"

SetFallbackConfig ==
    /\ Idle /\ builds = 0 /\ configs < MaxConfigs
    /\ \E config \in FallbackConfigs : b' = setFallbackConfig(b, config)
    /\ configs' = configs + 1
    /\ UNCHANGED << triangles, depth, progressCallback, hasWorker, promise, worker, progressLog, last, prev, builds, call >>

SetAdaptiveBinConfig ==
    /\ Idle /\ builds = 0 /\ configs < MaxConfigs
    /\ \E config \in BinConfigs : b' = setAdaptiveBinConfig(b, config)
    /\ configs' = configs + 1
    /\ UNCHANGED << triangles, depth, progressCallback, hasWorker, promise, worker, progressLog, last, prev, builds, call >>

SetMortonConfig ==
    /\ Idle /\ builds = 0 /\ configs < MaxConfigs
    /\ \E config \in MortonConfigs : b' = setMortonConfig(b, config)
    /\ configs' = configs + 1
    /\ UNCHANGED << triangles, depth, progressCallback, hasWorker, promise, worker, progressLog, last, prev, builds, call >>

\* a direct call of buildSync( triangles, depth, [], progressCallback )
CallBuildSync ==
    /\ Idle /\ builds < MaxBuilds
    /\ \E ticks \in Ticks(progressCallback) :
         \E st \in { buildSync(b, triangles, depth, << >>, progressCallback, 0, ticks) } :
             /\ b' = st.b
             /\ progressLog' = st.progressLog
             /\ last' = RunOf("buildSync", b, triangles, depth, progressCallback, st)
    /\ prev' = last
    /\ builds' = builds + 1
    /\ UNCHANGED << triangles, depth, progressCallback, hasWorker, promise, worker, configs, call >>

Next ==
    \/ SetFallbackConfig
    \/ SetAdaptiveBinConfig
    \/ SetMortonConfig
    \/ CallBuildSync

Spec == Init /\ [][Next]_vars

\* ------------------------------------------------------------ progress
\* buildSync with a progress callback on a clock that advances by 0, 50 or
\* 100 ms before each read of performance.now() in updateProgress.
TickSteps == { 0, 50, 100 }

InitProgress ==
    /\ InitCommon
    /\ triangles \in { sc \in SmallScenes : Len(sc) <= MaxProgressTris }
    /\ b = [ NewBuilder EXCEPT !.maxLeafSize = 1 ]
    /\ progressCallback = TRUE
    /\ hasWorker = TRUE

\* a direct call of buildSync( triangles, depth, [], progressCallback )
CallBuildSyncTimed ==
    /\ Idle /\ builds < MaxBuilds
    /\ \E ticks \in [ 1 .. MaxProgressTicks -> TickSteps ] :
         \E st \in { buildSync(b, triangles, depth, << >>, progressCallback, 0, ticks) } :
             /\ b' = st.b
             /\ progressLog' = st.progressLog
             /\ last' = RunOf("buildSync", b, triangles, depth, progressCallback, st)
    /\ prev' = last
    /\ builds' = builds + 1
    /\ UNCHANGED << triangles, depth, progressCallback, hasWorker, promise, worker, configs, call >>

NextProgress == CallBuildSyncTimed

SpecProgress == InitProgress /\ [][NextProgress]_vars

\* ------------------------------------------------------------ build()
\* The worker script (./Workers/BVHWorker.js) receives { triangles, depth,
\* reportProgress } and nothing else: it runs the pipeline on a builder of its
\* own, as constructed, posts a message per progress report, and ends with a
\* completion message { bvhRoot, triangles } or an error message { error }.
\* chatty: it reports progress although reportProgress is false; fails: it
\* ends with an error message.
WorkerMessages(st, fails) ==
    [ k \in 1 .. Len(st.progressLog) |-> [ progress |-> st.progressLog[k] ] ]
    \o << IF st.threw \/ fails
          THEN [ error |-> "build failed" ]
          ELSE [ bvhRoot |-> st.b.nodes, triangles |-> st.reorderedTriangles ] >>

BVHWorker(data, chatty, fails, ticks) ==
    WorkerMessages(buildSync(NewBuilder, data.triangles, data.depth, << >>,
                             data.reportProgress \/ chatty, 0, ticks),
                   fails)

\* a worker.onmessage that terminates the worker on every message
onmessageTerminates(h, data, callback) ==
    [ h EXCEPT !.worker.state = "terminated",
               !.progressLog = IF Has(data, "progress") /\ callback
                               THEN Append(@, data.progress) ELSE @ ]

\* a worker.onmessage that resolves the promise on an error message
onmessageErrorResolves(h, data, callback) ==
    IF Has(data, "error")
    THEN [ h EXCEPT !.worker.state = "terminated",
                    !.promise = [ state |-> "resolved", root |-> << >> ] ]
    ELSE IF Has(data, "progress") /\ callback
    THEN [ h EXCEPT !.progressLog = Append(@, data.progress) ]
    ELSE IF ~Has(data, "triangles")
    THEN [ h EXCEPT !.worker.uncaught = @ + 1 ]
    ELSE [ h EXCEPT !.triangles = data.triangles,
                    !.worker.state = "terminated",
                    !.promise = [ state |-> "resolved", root |-> data.bvhRoot ],
                    !.run = [ @ EXCEPT !.threw = FALSE, !.nodes = data.bvhRoot,
                                       !.reordered = data.triangles ] ]

\* a worker.onmessage that leaves the worker running after the completion
\* message
onmessageKeepsWorker(h, data, callback) ==
    IF Has(data, "error")
    THEN [ h EXCEPT !.worker.state = "terminated",
                    !.promise = [ state |-> "rejected", root |-> << >> ] ]
    ELSE IF Has(data, "progress") /\ callback
    THEN [ h EXCEPT !.progressLog = Append(@, data.progress) ]
    ELSE IF ~Has(data, "triangles")
    THEN [ h EXCEPT !.worker.uncaught = @ + 1 ]
    ELSE [ h EXCEPT !.triangles = data.triangles,
                    !.promise = [ state |-> "resolved", root |-> data.bvhRoot ],
                    !.run = [ @ EXCEPT !.threw = FALSE, !.nodes = data.bvhRoot,
                                       !.reordered = data.triangles ] ]

\* worker.onmessage, lines 1045-1074, on h = [ promise, worker, triangles,
\* progressLog, run ]; run is the record of the build the message completes.
\* A message without triangles that reaches line 1064 raises a TypeError in
\* the handler, which nothing catches.
onmessage(h, data, callback) ==
    IF Has(data, "error")
    THEN [ h EXCEPT !.worker.state = "terminated",
                    !.promise = [ state |-> "rejected", root |-> << >> ] ]
    ELSE IF Has(data, "progress") /\ callback
    THEN [ h EXCEPT !.progressLog = Append(@, data.progress) ]
    ELSE IF ~Has(data, "triangles")
    THEN [ h EXCEPT !.worker.uncaught = @ + 1 ]
    ELSE [ h EXCEPT !.triangles = data.triangles,
                    !.worker.state = "terminated",
                    !.promise = [ state |-> "resolved", root |-> data.bvhRoot ],
                    !.run = [ @ EXCEPT !.threw = FALSE, !.nodes = data.bvhRoot,
                                       !.reordered = data.triangles ] ]

\* lines 1029-1031
BuildEntered(bb, input) ==
    [ bb EXCEPT !.totalTriangles = Len(input),
                !.processedTriangles = 0,
                !.lastProgressUpdate = 0 ]

\* the promise build() returns when buildSync ran in the caller's context:
\* line 1096 raises out of build() what buildSync raises, line 1088 raises
\* inside the promise executor, which rejects the promise
SyncPromise(st, inExecutor) ==
    IF st.threw
    THEN [ state |-> IF inExecutor THEN "rejected" ELSE "threw", root |-> << >> ]
    ELSE [ state |-> "resolved", root |-> st.b.nodes ]

InitBuild ==
    /\ InitCommon
    /\ depth = MaxDepth
    /\ \/ /\ triangles \in { sc \in SmallScenes : Len(sc) <= MaxBuildTris }
          /\ \E use \in BOOLEAN : b = [ NewBuilder EXCEPT !.maxLeafSize = 1, !.useWorker = use ]
       \/ /\ triangles \in BigScenes
          /\ \E use \in BOOLEAN : b = [ NewBuilder EXCEPT !.useWorker = use ]
    /\ progressCallback \in BOOLEAN
    /\ hasWorker \in BOOLEAN

\* build( triangles, depth, progressCallback ), lines 1094-1098: the worker
\* is disabled or unavailable
CallBuildInline ==
    /\ Idle /\ builds < MaxBuilds
    /\ ~(b.useWorker /\ hasWorker)
    /\ \E ticks \in Ticks(progressCallback) :
         \E st \in { buildSync(BuildEntered(b, triangles), triangles, depth, << >>,
                               progressCallback, 0, ticks) } :
             /\ b' = st.b
             /\ progressLog' = st.progressLog
             /\ promise' = SyncPromise(st, FALSE)
             /\ last' = RunOf("sync", b, triangles, depth, progressCallback, st)
    /\ prev' = last
    /\ builds' = builds + 1
    /\ UNCHANGED << triangles, depth, progressCallback, hasWorker, worker, configs, call >>

\* build(), lines 1085-1090: new Worker( ... ) raised
CallBuildFallback ==
    /\ Idle /\ builds < MaxBuilds
    /\ b.useWorker /\ hasWorker
    /\ \E ticks \in Ticks(progressCallback) :
         \E st \in { buildSync(BuildEntered(b, triangles), triangles, depth, << >>,
                               progressCallback, 0, ticks) } :
             /\ b' = st.b
             /\ progressLog' = st.progressLog
             /\ promise' = SyncPromise(st, TRUE)
             /\ last' = RunOf("fallback", b, triangles, depth, progressCallback, st)
    /\ prev' = last
    /\ builds' = builds + 1
    /\ UNCHANGED << triangles, depth, progressCallback, hasWorker, worker, configs, call >>

\* build(), lines 1036-1083: the worker is created and the input posted
CallBuildWorker ==
    /\ Idle /\ builds < MaxBuilds
    /\ b.useWorker /\ hasWorker
    /\ \E chatty, fails \in BOOLEAN :
         \E ticks \in Ticks(progressCallback \/ chatty) :
             worker' = [ state |-> "running", uncaught |-> 0,
                         outbox |-> BVHWorker([ triangles |-> triangles, depth |-> depth,
                                                reportProgress |-> progressCallback ],
                                              chatty, fails, ticks) ]
    /\ b' = BuildEntered(b, triangles)
    /\ promise' = [ state |-> "pending", root |-> << >> ]
    /\ progressLog' = << >>
    /\ builds' = builds + 1
    /\ UNCHANGED << triangles, depth, progressCallback, hasWorker, last, prev, configs, call >>

\* the next message of the worker is delivered to worker.onmessage
OnMessage ==
    /\ worker.state = "running" /\ worker.outbox # << >>
    /\ \E h \in { onmessage([ promise |-> promise,
                              worker |-> [ worker EXCEPT !.outbox = Tail(@) ],
                              triangles |-> triangles,
                              progressLog |-> progressLog,
                              run |-> [ NoRun EXCEPT !.mode = "worker",
                                                     !.input = triangles,
                                                     !.depth = depth,
                                                     !.config = ConfigOf(b),
                                                     !.callback = progressCallback ] ],
                            Head(worker.outbox), progressCallback) } :
         /\ promise' = h.promise
         /\ worker' = h.worker
         /\ triangles' = h.triangles
         /\ progressLog' = h.progressLog
         /\ last' = IF h.promise.state = "resolved" THEN h.run ELSE last
         /\ prev' = IF h.promise.state = "resolved" THEN last ELSE prev
    /\ UNCHANGED << b, depth, progressCallback, hasWorker, builds, configs, call >>

\* worker.onerror, lines 1076-1081: a runtime failure of the worker
OnError ==
    /\ worker.state = "running"
    /\ worker' = [ worker EXCEPT !.state = "terminated" ]
    /\ promise' = [ state |-> "rejected", root |-> << >> ]
    /\ UNCHANGED << b, triangles, depth, progressCallback, hasWorker, progressLog,
                    last, prev, builds, configs, call >>

NextBuild ==
    \/ SetFallbackConfig
    \/ SetAdaptiveBinConfig
    \/ SetMortonConfig
    \/ CallBuildInline
    \/ CallBuildFallback
    \/ CallBuildWorker
    \/ OnMessage
    \/ OnError

SpecBuild == InitBuild /\ [][NextBuild]_vars

\* ------------------------------------------------------------ presorter calls
\* The presorter's functions called directly: morton3D on quantised
\* coordinates, sortTrianglesByMortonCode and recursiveMortonCluster on the
\* TriangleInfo array of a scene, under every bit depth setMortonConfig can
\* be asked for and with the presort disabled.  One call is followed per
\* behaviour: the functions keep no state between calls.
MortonBitDepths == 4 .. 18
PresortConfigs ==
    { [ bits |-> bits, threshold |-> 16 ] : bits \in MortonBitDepths }
      \cup { [ enabled |-> FALSE, threshold |-> 16 ] }
PresortScenes == { Row(10, 3), Row(17, 5) }
\* maxClusterSize: below the scenes' sizes, and the default
ClusterSizes == { 4, MaxClusterSize }
\* quantised coordinates of a bit depth: 0, 1, the top bit alone, all bits
MortonCoordinates(bits) ==
    { 0, 1, (mortonScaleOf(bits) + 1) \div 2, mortonScaleOf(bits) }
TriangleInfos(input) == [ k \in 1 .. Len(input) |-> TriangleInfo(input[k], k - 1) ]

InitPresort ==
    /\ InitCommon
    /\ depth = 0
    /\ triangles \in PresortScenes
    /\ b = NewBuilder
    /\ progressCallback = FALSE
    /\ hasWorker = TRUE

SetPresortConfig ==
    /\ call = NoCall /\ configs < MaxConfigs
    /\ \E config \in PresortConfigs : b' = setMortonConfig(b, config)
    /\ configs' = configs + 1
    /\ UNCHANGED << triangles, depth, progressCallback, hasWorker, promise, worker, progressLog,
                    last, prev, builds, call >>

\* morton3D( x, y, z ) as computeMortonCode calls it: 0 <= x, y, z <= mortonScale
CallMorton3D ==
    /\ call = NoCall
    /\ \E x \in MortonCoordinates(b.mortonBits) :
         \E y \in MortonCoordinates(b.mortonBits) :
             \E z \in MortonCoordinates(b.mortonBits) :
                 call' = [ fn |-> "morton3D", x |-> x, y |-> y, z |-> z,
                           ret |-> morton3D(x, y, z) ]
    /\ UNCHANGED << b, triangles, depth, progressCallback, hasWorker, promise, worker,
                    progressLog, last, prev, builds, configs >>

CallSortTrianglesByMortonCode ==
    /\ call = NoCall
    /\ call' = [ fn |-> "sortTrianglesByMortonCode",
                 triangleInfos |-> TriangleInfos(triangles),
                 ret |-> sortTrianglesByMortonCode(b, TriangleInfos(triangles)) ]
    /\ UNCHANGED << b, triangles, depth, progressCallback, hasWorker, promise, worker,
                    progressLog, last, prev, builds, configs >>

CallRecursiveMortonCluster ==
    /\ call = NoCall
    /\ \E maxClusterSize \in ClusterSizes :
         call' = [ fn |-> "recursiveMortonCluster",
                   triangleInfos |-> TriangleInfos(triangles),
                   maxClusterSize |-> maxClusterSize,
                   ret |-> recursiveMortonCluster(b, TriangleInfos(triangles),
                                                  maxClusterSize) ]
    /\ UNCHANGED << b, triangles, depth, progressCallback, hasWorker, promise, worker,
                    progressLog, last, prev, builds, configs >>

NextPresort ==
    \/ SetPresortConfig
    \/ CallMorton3D
    \/ CallSortTrianglesByMortonCode
    \/ CallRecursiveMortonCluster

SpecPresort == InitPresort /\ [][NextPresort]_vars

\* ------------------------------------------------------------ the returned tree
\* The run under study is last: its nodes in creation order (the root is
\* node 1, child references are positions, 0 = null) and its reordered array.
Returned == last.mode # "none" /\ ~last.threw

RECURSIVE Subtree(_, _)
Subtree(nodes, i) ==
    IF i = 0 THEN { }
    ELSE { i } \cup Subtree(nodes, nodes[i].leftChild) \cup Subtree(nodes, nodes[i].rightChild)

TreeNodes == Subtree(last.nodes, 1)
IsLeafNode(i) == last.nodes[i].leftChild = 0 /\ last.nodes[i].rightChild = 0
Leaves == { i \in TreeNodes : IsLeafNode(i) }
Internals == TreeNodes \ Leaves
\* the positions [ triangleOffset, triangleOffset + triangleCount ), 0-based
LeafRange(i) ==
    { last.nodes[i].triangleOffset + k : k \in 0 .. last.nodes[i].triangleCount - 1 }
\* the triangles stored at a leaf's range of the reordered array
LeafTriangles(i) == { last.reordered[p + 1] : p \in LeafRange(i) }
Vertices(t) == { t.posA, t.posB, t.posC }
Inside(v, lo, hi) == \A a \in 1 .. 3 : lo[a] <= v[a] /\ v[a] <= hi[a]

\* C1: after buildSync returns on a non-empty input of length N, the leaf
\* ranges are pairwise disjoint and their union is exactly [0, N); every
\* input triangle appears in the reordered array exactly once.
C1_LeafRangesPartition ==
    (Returned /\ Len(last.input) > 0) =>
        /\ \A i, j \in Leaves : i # j => LeafRange(i) \cap LeafRange(j) = { }
        /\ UNION { LeafRange(i) : i \in Leaves } = 0 .. Len(last.input) - 1
        /\ Len(last.reordered) = Len(last.input)
        /\ \A k \in 1 .. Len(last.input) :
             Cardinality({ p \in 1 .. Len(last.reordered) :
                             last.reordered[p] = last.input[k] }) = 1

C1_Witness ==
    /\ Returned /\ Len(last.input) >= 3
    /\ Cardinality(Leaves) >= 3
    /\ Ids(last.reordered) # Ids(last.input)

\* C3: every internal node's bounds equal the component-wise union of its
\* two children's bounds.
C3_InternalBoundsAreUnion ==
    Returned =>
        \A i \in Internals :
            /\ last.nodes[i].boundsMin =
                 VMin(last.nodes[last.nodes[i].leftChild].boundsMin,
                      last.nodes[last.nodes[i].rightChild].boundsMin)
            /\ last.nodes[i].boundsMax =
                 VMax(last.nodes[last.nodes[i].leftChild].boundsMax,
                      last.nodes[last.nodes[i].rightChild].boundsMax)

C3_Witness ==
    /\ Returned
    /\ \E i \in Internals :
         /\ last.nodes[last.nodes[i].leftChild].boundsMax # last.nodes[i].boundsMax
         /\ last.nodes[last.nodes[i].rightChild].boundsMin # last.nodes[i].boundsMin

\* C4: in a tree returned for a non-empty input, each node has both children
\* (internal) or no child and triangleCount > 0 (leaf); none has exactly one.
C4_BothChildrenOrLeaf ==
    (Returned /\ Len(last.input) > 0) =>
        \A i \in TreeNodes :
            \/ last.nodes[i].leftChild # 0 /\ last.nodes[i].rightChild # 0
            \/ /\ last.nodes[i].leftChild = 0 /\ last.nodes[i].rightChild = 0
               /\ last.nodes[i].triangleCount > 0

\* a split was chosen whose partition left one side empty, and the node
\* became a leaf
C4_Witness ==
    /\ Returned /\ Len(last.input) > 0
    /\ \E i \in Leaves :
         /\ last.nodes[i].triangleCount > last.config.maxLeafSize
         /\ last.calls[i].depth > 0
         /\ last.splitStats.failedSplits = 0

\* C6: the root's bounds contain every vertex of every input triangle, and
\* every leaf's bounds contain every vertex of the triangles in its range.
C6_BoundsContainTriangles ==
    Returned =>
        /\ \A k \in 1 .. Len(last.input) : \A v \in Vertices(last.input[k]) :
             Inside(v, last.nodes[1].boundsMin, last.nodes[1].boundsMax)
        /\ \A i \in Leaves : \A t \in LeafTriangles(i) : \A v \in Vertices(t) :
             Inside(v, last.nodes[i].boundsMin, last.nodes[i].boundsMax)

C6_Witness ==
    /\ Returned /\ Cardinality(Leaves) >= 2
    /\ \E i \in Leaves :
         /\ last.nodes[i].triangleCount >= 2
         /\ last.nodes[i].boundsMax # last.nodes[1].boundsMax

\* a builder as constructed, carrying a given configuration
BuilderOf(config) ==
    [ NewBuilder EXCEPT
        !.maxLeafSize = config.maxLeafSize,
        !.minBins = config.minBins,
        !.maxBins = config.maxBins,
        !.numBins = config.numBins,
        !.useMortonCodes = config.useMortonCodes,
        !.mortonBits = config.mortonBits,
        !.mortonClusterThreshold = config.mortonClusterThreshold,
        !.enableObjectMedianFallback = config.enableObjectMedianFallback,
        !.enableSpatialMedianFallback = config.enableSpatialMedianFallback,
        !.binBounds = initializeBinArrays(config.maxBins).binBounds,
        !.binCounts = initializeBinArrays(config.maxBins).binCounts ]

\* the triangles of a leaf, in the order of its range
LeafInfos(i) ==
    [ k \in 1 .. last.nodes[i].triangleCount |->
        TriangleInfo(last.reordered[last.nodes[i].triangleOffset + k], k - 1) ]

\* the split selector finds no split of the leaf's triangles, or finds one
\* whose partition leaves a side empty
NoUsableSplit(i) ==
    LET found == findBestSplitPositionSAH(BuilderOf(last.config), LeafInfos(i), last.nodes[i])
        parts == partitionTrianglesOptimized(BuilderOf(last.config), LeafInfos(i),
                                             found.splitInfo.axis, found.splitInfo.pos)
    IN  \/ ~found.splitInfo.success
        \/ PartitionFailed(parts.tempLeftTris, parts.tempRightTris)

\* C5 as stated: every leaf has triangleCount <= maxLeafSize or was created
\* with the remaining depth budget equal to 0.
C5_LeafWithinCapOrDepthZero ==
    Returned =>
        \A i \in Leaves :
            \/ last.nodes[i].triangleCount <= last.config.maxLeafSize
            \/ last.calls[i].depth = 0

\* C5 amended: every leaf has triangleCount <= maxLeafSize, or was created
\* with no depth budget left, or holds triangles for which split selection
\* failed in every enabled tier or chose a plane with all of them on one side.
C5_LeafCapDepthOrNoSplit ==
    Returned =>
        \A i \in Leaves :
            \/ last.nodes[i].triangleCount <= last.config.maxLeafSize
            \/ last.calls[i].depth <= 0
            \/ NoUsableSplit(i)

\* a leaf above the cap, created with depth budget left, after every enabled
\* tier failed; and a leaf created because the budget ran out
C5_Witness ==
    /\ Returned
    /\ last.splitStats.failedSplits > 0
    /\ \E i \in Leaves :
         /\ last.nodes[i].triangleCount > last.config.maxLeafSize
         /\ last.calls[i].depth > 0

\* C7: on a non-empty input buildSync returns a root without raising an
\* error; every recursive call receives a strictly smaller, non-empty subset
\* and a smaller depth budget.
C7_ReturnsWithoutError ==
    (last.mode # "none" /\ Len(last.input) > 0) =>
        /\ ~last.threw
        /\ \A i \in 2 .. Len(last.calls) :
             /\ last.calls[i].count > 0
             /\ last.calls[i].count < last.calls[last.calls[i].parent].count
             /\ last.calls[i].depth < last.calls[last.calls[i].parent].depth

SameTree(r1, r2) == r1.nodes = r2.nodes /\ r1.reordered = r2.reordered

\* the run a freshly constructed builder of the same configuration makes
FreshRun(run) ==
    RunOf("buildSync", BuilderOf(run.config), run.input, run.depth, FALSE,
          buildSync(BuilderOf(run.config), run.input, run.depth, << >>, FALSE, 0, << >>))

\* C8: two buildSync runs of the same triangles with the same depth and
\* configuration, one after the other on one builder or on two builders,
\* return the same nodes (shape, bounds, offsets, counts) and the same
\* reordered order.
C8_SyncBuildsAgree ==
    (last.mode = "buildSync" /\ ~last.threw) =>
        /\ SameTree(last, FreshRun(last))
        /\ (/\ prev.mode = "buildSync" /\ ~prev.threw
            /\ prev.input = last.input /\ prev.depth = last.depth
            /\ prev.config = last.config) => SameTree(prev, last)

\* the second build on a builder whose scratch arrays hold the first build's
\* leftovers
C8_Witness ==
    /\ last.mode = "buildSync" /\ ~last.threw
    /\ prev.mode = "buildSync" /\ ~prev.threw
    /\ prev.input = last.input /\ prev.depth = last.depth /\ prev.config = last.config
    /\ Cardinality(Internals) >= 2
    /\ b.tempLeftTris # << >>
    /\ b.splitStats.sahSplits + b.splitStats.objectMedianSplits > 0

\* ------------------------------------------------------------ build() claims
\* C2: after build() resolves, in every execution mode, the caller's array
\* holds at every leaf's [ triangleOffset, triangleOffset + triangleCount )
\* exactly the triangles assigned to that leaf (last.reordered is the array
\* the leaves were written against).
C2_CallerArrayMatchesLeaves ==
    (promise.state = "resolved" /\ Returned) =>
        \A i \in Leaves : \A p \in LeafRange(i) :
            /\ p + 1 <= Len(triangles)
            /\ triangles[p + 1] = last.reordered[p + 1]

\* the tree a synchronous build of the same input returns on a builder that
\* carries the caller's configuration
SyncTwin(run) ==
    buildSync(BuilderOf(run.config), run.input, run.depth, << >>, FALSE, 0, << >>)

\* C9: a background build returns the tree a synchronous build of the same
\* input returns under the configuration in force on the calling builder:
\* the same nodes (bounds, leaf ranges, node count).
C9_WorkerTreeEqualsSyncTree ==
    (promise.state = "resolved" /\ last.mode = "worker" /\ ~SyncTwin(last).threw) =>
        /\ last.nodes = SyncTwin(last).b.nodes
        /\ Ids(last.reordered) = Ids(SyncTwin(last).reorderedTriangles)

\* C10: handling a progress message of the worker forwards it to the progress
\* callback when there is one, and leaves the promise pending, the worker
\* running and the caller's array unchanged.
C10_ProgressKeepsBuildPending ==
    [][ ( /\ worker.state = "running" /\ worker.outbox # << >>
          /\ Has(Head(worker.outbox), "progress")
          /\ worker'.outbox = Tail(worker.outbox) )
        => ( /\ promise.state = "pending" /\ promise' = promise
             /\ worker'.state = "running"
             /\ triangles' = triangles
             /\ progressCallback =>
                    progressLog' = Append(progressLog, Head(worker.outbox).progress) )
      ]_vars

\* two progress messages were handled, one forwarded to the callback, and the
\* terminal message is still to come
C10_Witness ==
    /\ promise.state = "pending" /\ worker.state = "running"
    /\ Len(worker.outbox) = 1
    /\ \/ Len(progressLog) >= 2
       \/ worker.uncaught >= 2

\* ------------------------------------------------------------ failure and completion
\* the worker's next message is being handled / the worker raised an error event
HandlesMessage == worker.state = "running" /\ worker.outbox # << >>
                  /\ worker'.outbox = Tail(worker.outbox)
HandlesErrorEvent == worker.state = "running" /\ worker'.state = "terminated"
                     /\ worker'.outbox = worker.outbox

\* C11: when the worker reports a runtime failure (an error message or an
\* error event) the promise rejects without a root, the caller's array is
\* left as it was, and buildSync is not run as a retry (the builder, the
\* record of the last pipeline run and the build count are untouched).
C11_WorkerFailureRejects ==
    [][ ( \/ HandlesMessage /\ Has(Head(worker.outbox), "error")
          \/ HandlesErrorEvent )
        => ( /\ promise.state = "pending"
             /\ promise' = [ state |-> "rejected", root |-> << >> ]
             /\ worker'.state = "terminated"
             /\ triangles' = triangles
             /\ b' = b /\ last' = last /\ prev' = prev /\ builds' = builds
             /\ progressLog' = progressLog )
      ]_vars

\* an error message was handled after the worker's progress messages: the
\* promise is rejected and the caller still holds its input
C11_Witness ==
    /\ promise.state = "rejected" /\ worker.state = "terminated"
    /\ worker.outbox = << >>
    /\ Len(triangles) >= 2 /\ Ids(triangles) = [ k \in 1 .. Len(triangles) |-> k ]
    /\ last.mode = "none"

\* C12: handling the completion message copies the message's triangles into
\* the caller's array, terminates the worker and resolves the promise with
\* the message's root; once the promise is settled it never changes again
\* within the same build() call and no callback is made after it.
C12_CompletionResolvesOnce ==
    [][ /\ ( /\ HandlesMessage
             /\ ~Has(Head(worker.outbox), "error")
             /\ Has(Head(worker.outbox), "triangles") )
           => ( /\ promise.state = "pending"
                /\ triangles' = Head(worker.outbox).triangles
                /\ worker'.state = "terminated"
                /\ promise' = [ state |-> "resolved",
                                root |-> Head(worker.outbox).bvhRoot ] )
        /\ ( promise.state \in { "resolved", "rejected" } /\ builds' = builds )
           => ( promise' = promise /\ progressLog' = progressLog
                /\ triangles' = triangles /\ worker' = worker )
      ]_vars

\* a background build resolved with a tree of several leaves and the caller's
\* array was rewritten into another order
C12_Witness ==
    /\ promise.state = "resolved" /\ last.mode = "worker"
    /\ worker.state = "terminated" /\ worker.outbox = << >>
    /\ promise.root = last.nodes /\ Len(promise.root) >= 3
    /\ triangles = last.reordered
    /\ Ids(triangles) # [ k \in 1 .. Len(triangles) |-> k ]

\* C13: when the worker is disabled, unavailable or cannot be created,
\* build() runs buildSync in the caller's context, the promise resolves with
\* the root buildSync built, never rejects, and the progress callback is
\* called inline (the calls are made before build() returns).
C13_SyncModesResolve ==
    /\ (builds = 1 /\ ~(b.useWorker /\ hasWorker)) => last.mode = "sync"
    /\ (builds = 1 /\ last.mode \in { "sync", "fallback" }) =>
          /\ worker = NoWorker
          /\ promise.state = "resolved"
          /\ ~last.threw /\ promise.root = last.nodes /\ Len(promise.root) >= 1
          /\ progressCallback => ( Len(progressLog) >= 1
                                   /\ progressLog[Len(progressLog)].value = 100 )

\* ------------------------------------------------------------ scenarios
\* C14: for an empty input buildSync returns a single node, a leaf with
\* triangleCount = 0 and triangleOffset = 0 whose bounds are the inverted
\* sentinel (boundsMin = +Infinity, boundsMax = -Infinity on every axis), and
\* the reordered array is empty.
C14_EmptyInputSentinelLeaf ==
    (last.mode # "none" /\ last.input = << >>) =>
        /\ ~last.threw
        /\ Len(last.nodes) = 1 /\ IsLeafNode(1)
        /\ last.nodes[1].triangleCount = 0 /\ last.nodes[1].triangleOffset = 0
        /\ last.nodes[1].boundsMin = << Infinity, Infinity, Infinity >>
        /\ last.nodes[1].boundsMax = << -Infinity, -Infinity, -Infinity >>
        /\ last.reordered = << >>
        /\ last.splitStats = NewSplitStats

\* an empty input was built, with a depth budget and after a configuration call
C14_Witness ==
    /\ Returned /\ last.input = << >> /\ last.depth > 0
    /\ Len(last.nodes) = 1 /\ configs > 0

\* the input of the last run as buildSync converts it (line 1126)
InputInfos == [ k \in 1 .. Len(last.input) |-> TriangleInfo(last.input[k], k - 1) ]

\* the sum of triangleCount over the nodes 1 .. i (an internal node holds 0)
RECURSIVE CountSum(_, _)
CountSum(nodes, i) ==
    IF i = 0 THEN 0 ELSE nodes[i].triangleCount + CountSum(nodes, i - 1)

\* ten triangles under the default leaf cap with a depth budget
TenTriangles ==
    /\ Returned /\ Len(last.input) = 10
    /\ last.config.maxLeafSize = 8 /\ last.depth > 0

RootMethod ==
    findBestSplitPositionSAH(BuilderOf(last.config), InputInfos, last.nodes[1]).splitInfo.method
Tier3Methods == { "spatial_median", "spatial_median_failed", "spatial_median_degenerate" }

\* 32 triangles; every centroid within 1e-10 of the origin / the centroids
\* spread less than 1e-10 on every axis
ThirtyTwo == last.mode # "none" /\ Len(last.input) = 32
NearOrigin ==
    /\ UnitOf(InputInfos) = "1e-11"
    /\ \A k \in 1 .. Len(last.input) : \A a \in 1 .. 3 :
         InputInfos[k].centroid[a] <= 30 /\ InputInfos[k].centroid[a] >= -30
SpreadBelowObjectMedian ==
    \A a \in 1 .. 3 :
        IF UnitOf(InputInfos) = "1e-11"
        THEN CentroidSpreads(InputInfos)[a] < 30
        ELSE CentroidSpreads(InputInfos)[a] = 0
\* the leaves' ranges cover the input once
CoversInput ==
    /\ UNION { LeafRange(i) : i \in Leaves } = 0 .. Len(last.input) - 1
    /\ CountSum(last.nodes, Len(last.nodes)) = Len(last.input)
    /\ \A i \in Leaves : last.nodes[i].triangleCount >= 1

\* C16 as stated: 32 triangles whose centroids are all within 1e-10 of the
\* origin build without an error, no node is split by binned SAH or by the
\* object median (selection falls through to the spatial median), and the
\* tree covers all 32 triangles.
C16_NearOriginFallsToTier3 ==
    (ThirtyTwo /\ NearOrigin) =>
        /\ ~last.threw
        /\ last.splitStats.sahSplits = 0 /\ last.splitStats.objectMedianSplits = 0
        /\ CoversInput
        /\ ( last.depth > 0 /\ last.config.enableObjectMedianFallback
                             /\ last.config.enableSpatialMedianFallback )
             => RootMethod \in Tier3Methods

\* C16 amended: 32 triangles whose centroids spread less than 1e-10 on every
\* axis build without an error under every configuration; no node is split
\* by binned SAH or by the object median, with the spatial-median fallback
\* enabled selection at the root ends in the spatial-median tier, and the
\* tree covers all 32 triangles.
C16_CoincidentFallsToTier3 ==
    (ThirtyTwo /\ SpreadBelowObjectMedian) =>
        /\ ~last.threw
        /\ last.splitStats.sahSplits = 0 /\ last.splitStats.objectMedianSplits = 0
        /\ CoversInput
        /\ ( last.depth > 0 /\ last.config.enableSpatialMedianFallback )
             => RootMethod \in Tier3Methods

\* centroids 1e-11 apart: the spatial median split the root and failed on
\* both children, whose centroids coincide
C16_Witness ==
    /\ ThirtyTwo /\ SpreadBelowObjectMedian /\ Returned
    /\ last.splitStats.spatialMedianSplits = 1 /\ last.splitStats.failedSplits = 2
    /\ Cardinality(Leaves) = 2

\* ------------------------------------------------------------ progress reports
\* the calls made to the progress callback by the last synchronous build
Reported == last.mode = "buildSync" /\ last.callback
InBuild == 1 .. Len(progressLog) - 1

\* C17: in a synchronous build with a progress callback every report made
\* while nodes are being built is at most 99, the reported values never
\* decrease, two reports made while building are at least
\* progressUpdateInterval apart on the clock, and 100 is reported exactly
\* once, as the last report.
C17_ProgressThrottledAndCapped ==
    Reported =>
        /\ Len(progressLog) >= 1
        /\ ~progressLog[Len(progressLog)].nan /\ progressLog[Len(progressLog)].value = 100
        /\ \A k \in InBuild : ~progressLog[k].nan /\ progressLog[k].value <= 99
        /\ \A j, k \in InBuild :
             j < k => /\ progressLog[j].value <= progressLog[k].value
                      /\ progressLog[k].time - progressLog[j].time >= b.progressUpdateInterval

\* C18: every value passed to the progress callback is an integer percent
\* in 0 .. 100, for every input (the empty array included) and every
\* elapsed time.
C18_ProgressIsIntegerPercent ==
    Reported =>
        \A k \in 1 .. Len(progressLog) :
            ~progressLog[k].nan /\ progressLog[k].value \in 0 .. 100

\* ------------------------------------------------------------ split tiers
\* the triangles a node was built from: the ranges of the leaves below it are
\* adjacent in the reordered array
NodeRange(i) == UNION { LeafRange(j) : j \in Subtree(last.nodes, i) \cap Leaves }
NodeInfos(i) ==
    [ k \in 1 .. Cardinality(NodeRange(i)) |->
        TriangleInfo(last.reordered[SetMin(NodeRange(i) \cup { Len(last.reordered) }) + k], k - 1) ]
\* the splitInfo split selection returns for the node's triangles
NodeSplit(i) ==
    findBestSplitPositionSAH(BuilderOf(last.config), NodeInfos(i), last.nodes[i]).splitInfo

\* C19: a disabled tier produces no split of the built tree, and with a tier
\* disabled a set for which the preceding enabled tier fails becomes a leaf
\* directly: with the object median disabled every split is a binned-SAH
\* split, with the spatial median disabled every split is a binned-SAH or an
\* object-median split.
C19_DisabledTierYieldsLeaf ==
    Returned =>
        /\ ~last.config.enableObjectMedianFallback =>
              \A i \in Internals : NodeSplit(i).method = "SAH"
        /\ ~last.config.enableSpatialMedianFallback =>
              \A i \in Internals : NodeSplit(i).method \in { "SAH", "object_median" }

\* C20: whenever split selection at a node ends with a success of the
\* object-median tier, partitioning the node's triangles at its position
\* (centroid <= position goes left) yields two non-empty sides.
C20_ObjectMedianSplitsBothSides ==
    Returned =>
        \A i \in TreeNodes :
            ( /\ ~IsLeafCase(BuilderOf(last.config), last.calls[i].count, last.calls[i].depth)
              /\ NodeSplit(i).method = "object_median" ) =>
                /\ CountLeft(NodeInfos(i), NodeSplit(i).axis, NodeSplit(i).pos) > 0
                /\ CountLeft(NodeInfos(i), NodeSplit(i).axis, NodeSplit(i).pos)
                     < Len(NodeInfos(i))

\* ------------------------------------------------------------ spatial median
\* C21: whenever split selection at a node ends in the spatial-median tier,
\* the tier fails only if every centroid of the node is identical on every
\* axis, and for centroids that differ on some axis it succeeds with a
\* position whose partition (centroid <= position goes left) has two
\* non-empty sides.
SplitsBothSides(triangleInfos, splitInfo) ==
    /\ splitInfo.success
    /\ CountLeft(triangleInfos, splitInfo.axis, splitInfo.pos) > 0
    /\ CountLeft(triangleInfos, splitInfo.axis, splitInfo.pos) < Len(triangleInfos)
CentroidsDiffer(triangleInfos) ==
    \E a \in 1 .. 3 : CentroidSpreads(triangleInfos)[a] > 0
C21_SpatialMedianSplitsUnlessIdentical ==
    Returned =>
        \A i \in TreeNodes :
            ( /\ ~IsLeafCase(BuilderOf(last.config), last.calls[i].count, last.calls[i].depth)
              /\ NodeSplit(i).method \in Tier3Methods ) =>
                /\ ~NodeSplit(i).success => ~CentroidsDiffer(NodeInfos(i))
                /\ CentroidsDiffer(NodeInfos(i)) => SplitsBothSides(NodeInfos(i), NodeSplit(i))

\* ------------------------------------------------------------ binned SAH
\* the number of the plane that binned SAH placed at pos: the plane between
\* the bins i - 1 and i lies at minCentroid + ( maxCentroid - minCentroid ) * i / binCount
PlaneOf(pos, currentBinCount, minCentroid, maxCentroid) ==
    (pos.n - minCentroid * currentBinCount) \div (maxCentroid - minCentroid)
\* the sides the plane loop evaluated for plane i of an axis: the bins below i
\* and the bins from i
EvaluatedSides(triangleInfos, axis, currentBinCount, minCentroid, maxCentroid, i) ==
    [ left |-> SAHSide(SAHBins(triangleInfos, axis, currentBinCount, minCentroid, maxCentroid),
                       0, i - 1),
      right |-> SAHSide(SAHBins(triangleInfos, axis, currentBinCount, minCentroid, maxCentroid),
                        i, currentBinCount - 1) ]
EvaluatedAt(bb, triangleInfos, splitInfo, minCentroid, maxCentroid) ==
    EvaluatedSides(triangleInfos, splitInfo.axis, getOptimalBinCount(bb, Len(triangleInfos)),
        minCentroid, maxCentroid,
        PlaneOf(splitInfo.pos, getOptimalBinCount(bb, Len(triangleInfos)),
                minCentroid, maxCentroid))
\* the sides binned SAH evaluated for the split it accepted
Evaluated(bb, triangleInfos, splitInfo) ==
    EvaluatedAt(bb, triangleInfos, splitInfo,
        SetMin(CentroidSet(triangleInfos, splitInfo.axis)),
        SetMax(CentroidSet(triangleInfos, splitInfo.axis)))
PartitionMatchesBins(sides, evaluated) ==
    /\ Len(sides.tempLeftTris) = evaluated.left.count
    /\ Len(sides.tempRightTris) = evaluated.right.count

\* C22: for every split that binned SAH accepted at a node of the built tree,
\* partitioning the node's triangles with centroid <= position puts on the
\* left as many triangles as the bins left of the plane counted and on the
\* right as many as the bins right of it counted.
C22_PartitionMatchesBinCounts ==
    Returned =>
        \A i \in Internals :
            NodeSplit(i).method = "SAH" =>
                PartitionMatchesBins(
                    partitionTrianglesOptimized(BuilderOf(last.config), NodeInfos(i),
                                                NodeSplit(i).axis, NodeSplit(i).pos),
                    Evaluated(BuilderOf(last.config), NodeInfos(i), NodeSplit(i)))

\* cost * parentSA of the plane the plane loop evaluates between two sides
\* (traversalCost = intersectionCost = 1)
PlaneCost(parentSA, sides) ==
    parentSA + computeSurfaceAreaFromBounds(sides.left.min, sides.left.max) * sides.left.count
             + computeSurfaceAreaFromBounds(sides.right.min, sides.right.max) * sides.right.count
\* the sides of every plane of one binned axis that has triangles on both sides
PlaneSides(bins, currentBinCount) ==
    { sides \in { [ left |-> SAHSide(bins, 0, i - 1),
                    right |-> SAHSide(bins, i, currentBinCount - 1) ] :
                  i \in 1 .. currentBinCount - 1 } :
        sides.left.count > 0 /\ sides.right.count > 0 }
AxisCosts(parentSA, bins, currentBinCount) ==
    { PlaneCost(parentSA, sides) : sides \in PlaneSides(bins, currentBinCount) }
\* the costs of the candidate planes of a node, each as cost * parentSA: every
\* plane of every non-degenerate axis that has triangles on both sides
CandidateCosts(bb, triangleInfos, parentSA) ==
    UNION { AxisCosts(parentSA,
                SAHBins(triangleInfos, axis, getOptimalBinCount(bb, Len(triangleInfos)),
                        SetMin(CentroidSet(triangleInfos, axis)),
                        SetMax(CentroidSet(triangleInfos, axis))),
                getOptimalBinCount(bb, Len(triangleInfos))) :
            axis \in { a \in 0 .. 2 : CentroidSpreads(triangleInfos)[a + 1]
                                         >= Thresholds(UnitOf(triangleInfos)).sah } }
\* leafCost * parentSA
LeafCost(triangleInfos, parentSA) == Len(triangleInfos) * parentSA
NodeSA(i) == computeSurfaceAreaFromBounds(last.nodes[i].boundsMin, last.nodes[i].boundsMax)
\* a split accepted by binned SAH is the cheapest candidate and cheaper than a
\* leaf; a set handed to the next tier has no candidate cheaper than a leaf
ChosenCost(triangleInfos, splitInfo, parentSA) ==
    PlaneCost(parentSA, Evaluated(BuilderOf(last.config), triangleInfos, splitInfo))
Cheapest(cost, costs, leafCost) ==
    cost \in costs /\ cost < leafCost /\ \A other \in costs : cost <= other
CheapestOrNone(triangleInfos, splitInfo, parentSA, costs) ==
    IF splitInfo.method = "SAH"
    THEN /\ parentSA > 0
         /\ Cheapest(ChosenCost(triangleInfos, splitInfo, parentSA), costs,
                     LeafCost(triangleInfos, parentSA))
    ELSE \A cost \in costs : parentSA = 0 \/ cost >= LeafCost(triangleInfos, parentSA)

\* C23: at every node of the built tree that split selection was run for, a
\* split returned by binned SAH has the least cost among the candidate planes
\* of all non-degenerate axes with triangles on both sides, and that cost is
\* below the leaf cost intersectionCost * count; when binned SAH returns no
\* split, no candidate plane costs less than a leaf.
C23_SAHSplitIsCheapest ==
    Returned =>
        \A i \in TreeNodes :
            ~IsLeafCase(BuilderOf(last.config), last.calls[i].count, last.calls[i].depth) =>
                CheapestOrNone(NodeInfos(i), NodeSplit(i), NodeSA(i),
                               CandidateCosts(BuilderOf(last.config), NodeInfos(i), NodeSA(i)))
\* a node split by binned SAH although another plane was cheaper than a leaf too
C23_Witness ==
    /\ Returned
    /\ \E i \in Internals :
         /\ NodeSplit(i).method = "SAH"
         /\ \E cost \in CandidateCosts(BuilderOf(last.config), NodeInfos(i), NodeSA(i)) :
              /\ cost < LeafCost(NodeInfos(i), NodeSA(i))
              /\ cost > ChosenCost(NodeInfos(i), NodeSplit(i), NodeSA(i))

\* ------------------------------------------------------------ bin count
\* triangle counts around every step of getOptimalBinCount
TriangleCounts == (0 .. 20) \cup (60 .. 70) \cup (250 .. 260) \cup (1020 .. 1030)
BinCountOfTable(n, minBins, maxBins) ==
    CASE n <= 16 -> minBins
      [] n > 16 /\ n <= 64 -> 16
      [] n > 64 /\ n <= 256 -> 32
      [] n > 256 /\ n <= 1024 -> 48
      [] OTHER -> maxBins

\* C24: the bin count depends on the triangle count n alone: minBins (8 by
\* default) for n <= 16, 16 for n <= 64, 32 for n <= 256, 48 for n <= 1024 and
\* maxBins (64 by default) above, the two end values being the configured
\* bounds after every setAdaptiveBinConfig call.
C24_BinCountFollowsTable ==
    /\ \A n \in TriangleCounts :
         getOptimalBinCount(b, n) = BinCountOfTable(n, b.minBins, b.maxBins)
    /\ configs = 0 => b.minBins = 8 /\ b.maxBins = 64
\* a build of 17 triangles that returned after the bin bounds were configured
C24_Witness ==
    /\ Returned /\ Len(last.input) = 17
    /\ b.minBins = 16 /\ b.maxBins = 128
    /\ getOptimalBinCount(b, 16) = 16 /\ getOptimalBinCount(b, 1025) = 128

\* ------------------------------------------------------------ Morton keys
\* bit i of a number below 2^18
Bit(value, i) ==
    (value \div (CASE i = 0 -> 1 [] i = 1 -> 2 [] i = 2 -> 4 [] i = 3 -> 8 [] i = 4 -> 16
                   [] i = 5 -> 32 [] i = 6 -> 64 [] i = 7 -> 128 [] i = 8 -> 256
                   [] i = 9 -> 512 [] i = 10 -> 1024 [] i = 11 -> 2048 [] i = 12 -> 4096
                   [] i = 13 -> 8192 [] i = 14 -> 16384 [] i = 15 -> 32768
                   [] i = 16 -> 65536 [] OTHER -> 131072)) % 2
\* the positions of the 1 bits of the interleaved key: bit i of x at 3i, of y
\* at 3i + 1, of z at 3i + 2
Interleaved(x, y, z) ==
    { 3 * i : i \in { j \in 0 .. 15 : Bit(x, j) = 1 } }
      \cup { 3 * i + 1 : i \in { j \in 0 .. 15 : Bit(y, j) = 1 } }
      \cup { 3 * i + 2 : i \in { j \in 0 .. 15 : Bit(z, j) = 1 } }
\* the positions of the 1 bits of a non-negative key << h, l >> = h * 65536 + l
KeyBits(key) ==
    { i \in 0 .. 15 : Bit(key[2], i) = 1 } \cup { 16 + i : i \in { j \in 0 .. 17 : Bit(key[1], j) = 1 } }
MortonTriples(bits) ==
    MortonCoordinates(bits) \X MortonCoordinates(bits) \X MortonCoordinates(bits)

\* C25: for every bit depth B the builder can be configured with (6 .. 16)
\* and all coordinates 0 <= x, y, z < 2^B, morton3D( x, y, z ) is the
\* interleaved key (bit i of x at position 3i, of y at 3i + 1, of z at
\* 3i + 2), it is non-negative, and no other coordinate triple of that bit
\* depth has the same key.
C25_MortonKeyInterleaves ==
    call.fn = "morton3D" =>
        /\ call.ret[1] >= 0
        /\ KeyBits(call.ret) = Interleaved(call.x, call.y, call.z)
        /\ \A t \in MortonTriples(b.mortonBits) :
             t # << call.x, call.y, call.z >> => morton3D(t[1], t[2], t[3]) # call.ret

\* ------------------------------------------------------------ presort
\* the keys of a sequence of TriangleInfo never decrease
KeysAscending(infos) ==
    \A k \in 1 .. Len(infos) - 1 : ~MortonLess(infos[k + 1].mortonCode, infos[k].mortonCode)
\* every TriangleInfo carries the key of its centroid within the scene
KeysOfScene(bb, infos) ==
    \A k \in 1 .. Len(infos) :
        infos[k].mortonCode = computeMortonCode(bb, infos[k].centroid,
                                  SceneBounds(infos).min, SceneBounds(infos).max)
Indices(infos) == [ k \in 1 .. Len(infos) |-> infos[k].index ]
IsPermutation(indices, n) ==
    Len(indices) = n /\ \A i \in 0 .. n - 1 : Cardinality({ k \in 1 .. n : indices[k] = i }) = 1

\* C26: with the presort enabled, sortTrianglesByMortonCode returns its
\* argument in unchanged order when it holds fewer triangles than the cluster
\* threshold (128 by default); from the threshold on it returns a permutation
\* of its argument, each triangle once, in which the Morton keys of the
\* centroids never decrease.
C26_PresortSortsFromThreshold ==
    (call.fn = "sortTrianglesByMortonCode" /\ b.useMortonCodes) =>
        /\ configs = 0 => b.mortonClusterThreshold = 128
        /\ IF Len(call.triangleInfos) < b.mortonClusterThreshold
           THEN call.ret = call.triangleInfos
           ELSE /\ IsPermutation(Indices(call.ret), Len(call.triangleInfos))
                /\ \A k \in 1 .. Len(call.ret) :
                     call.ret[k].triangle = call.triangleInfos[call.ret[k].index + 1].triangle
                /\ KeysOfScene(b, call.ret)
                /\ KeysAscending(call.ret)
\* a call from the threshold on that changed the order
C26_Witness ==
    /\ call.fn = "sortTrianglesByMortonCode" /\ b.useMortonCodes
    /\ Len(call.triangleInfos) >= b.mortonClusterThreshold
    /\ Indices(call.ret) # Indices(call.triangleInfos)

\* ------------------------------------------------------------ bin arrays
\* C27: after every sequence of setAdaptiveBinConfig calls the bin count of
\* every triangle count is at most the number of allocated bin accumulators,
\* so that binning never reaches past the arrays, and no build fails.
C27_BinCountWithinArrays ==
    /\ \A n \in TriangleCounts :
         /\ getOptimalBinCount(b, n) <= Len(b.binBounds)
         /\ getOptimalBinCount(b, n) <= Len(b.binCounts)
    /\ last.mode # "none" => ~last.threw

\* ------------------------------------------------------------ depth
\* the height of the subtree of node i: a single leaf has height 0
RECURSIVE Height(_, _)
Height(nodes, i) ==
    IF nodes[i].leftChild = 0 /\ nodes[i].rightChild = 0 THEN 0
    ELSE 1 + Max2(IF nodes[i].leftChild = 0 THEN 0 ELSE Height(nodes, nodes[i].leftChild),
                  IF nodes[i].rightChild = 0 THEN 0 ELSE Height(nodes, nodes[i].rightChild))
\* the triangles in the order the presorter hands them to the recursive builder
TriangleIds(infos) == [ k \in 1 .. Len(infos) |-> infos[k].triangle.id ]
PresortedIds == TriangleIds(Presorted(BuilderOf(last.config), InputInfos))

\* C28: a tree built with depth d >= 0 has height at most d, and with d = 0
\* the root is a single leaf that holds all N triangles in presorted order.
C28_HeightWithinDepth ==
    Returned =>
        /\ Height(last.nodes, 1) <= last.depth
        /\ last.depth = 0 =>
             /\ TreeNodes = { 1 } /\ IsLeafNode(1)
             /\ last.nodes[1].triangleOffset = 0
             /\ last.nodes[1].triangleCount = Len(last.input)
             /\ Ids(last.reordered) = PresortedIds
\* a tree as high as its depth allows, with a leaf above the cap where the
\* depth ran out
C28_Witness ==
    /\ Returned
    /\ last.depth = MaxDepth /\ Height(last.nodes, 1) = MaxDepth
    /\ \E i \in Leaves :
         /\ last.calls[i].depth = 0
         /\ last.nodes[i].triangleCount > last.config.maxLeafSize

\* ------------------------------------------------------------ split counters
InternalsBy(methods) == { i \in Internals : NodeSplit(i).method \in methods }

\* C29: after buildSync the counters sahSplits, objectMedianSplits and
\* spatialMedianSplits sum to the number of internal nodes of the tree, and
\* each counts the internal nodes whose split its tier produced.
C29_CountersCountInternalNodes ==
    Returned =>
        /\ last.splitStats.sahSplits + last.splitStats.objectMedianSplits
             + last.splitStats.spatialMedianSplits = Cardinality(Internals)
        /\ last.splitStats.sahSplits = Cardinality(InternalsBy({ "SAH" }))
        /\ last.splitStats.objectMedianSplits = Cardinality(InternalsBy({ "object_median" }))
        /\ last.splitStats.spatialMedianSplits = Cardinality(InternalsBy({ "spatial_median" }))

\* ------------------------------------------------------------ presort disabled
\* C30: with the Morton presort disabled the presorting step of buildSync
\* returns the triangles in input order, whether it is
\* sortTrianglesByMortonCode (up to 50000 triangles) or
\* recursiveMortonCluster (above, where the array is larger than
\* maxClusterSize and is clustered).
C30_DisabledPresortKeepsOrder ==
    ( /\ call.fn \in { "sortTrianglesByMortonCode", "recursiveMortonCluster" }
      /\ ~b.useMortonCodes ) =>
        Indices(call.ret) = Indices(call.triangleInfos)
====
